---- MODULE Spec2Model ----
(***************************************************************************)
(* Model of the `guess` protocol detection library: the per-protocol       *)
(* validators (src/protocols/*.rs), the registry (src/lib.rs), the         *)
(* detection engine (src/detector.rs) and the two configuration builders   *)
(* (src/builder.rs, src/chain.rs).                                         *)
(*                                                                         *)
(* A byte slice is a sequence of integers in 0..255.  Source offsets are   *)
(* 0-based; B(data, i) reads data[i] and Slice(data, a, b) is data[a..b].  *)
(***************************************************************************)
EXTENDS Integers, Sequences, FiniteSets, TLC

\* ------------------------------------------------------------------------
\* Byte-slice helpers
\* ------------------------------------------------------------------------

B(data, i) == data[i + 1]

Slice(data, a, b) == SubSeq(data, a + 1, b)

MinInt(a, b) == IF a < b THEN a ELSE b

MinOf(S) == CHOOSE x \in S : \A y \in S : x <= y

starts_with(data, prefix) ==
    /\ Len(data) >= Len(prefix)
    /\ SubSeq(data, 1, Len(prefix)) = prefix

u16_be(hi, lo) == hi * 256 + lo

is_ascii_digit(b) == b >= 48 /\ b <= 57

is_ascii_uppercase(b) == b >= 65 /\ b <= 90

is_ascii_lowercase(b) == b >= 97 /\ b <= 122

is_ascii_alphanumeric(b) ==
    is_ascii_digit(b) \/ is_ascii_uppercase(b) \/ is_ascii_lowercase(b)

\* ------------------------------------------------------------------------
\* Registry: Protocol, DetectionStatus, ProtocolVersion (src/lib.rs)
\* ------------------------------------------------------------------------

Protocol ==
    {"Http", "Tls", "Ssh", "Dns", "Quic", "Mysql", "Postgres", "Redis",
     "Mqtt", "Smtp", "Pop3", "Imap", "Ftp", "Smb", "Stun", "Sip", "Rtsp",
     "Dhcp", "Ntp"}

DetectionStatus == {"Match", "NoMatch", "Incomplete"}

VUnknown == [variant |-> "Unknown", v |-> "-"]

VHttp(s) == [variant |-> "Http", v |-> s]

VTls(s) == [variant |-> "Tls", v |-> s]

VSsh(s) == [variant |-> "Ssh", v |-> s]

\* Redis(u8): the RESP major version, written as its decimal digits so that
\* every version payload is a string.
VRedis(n) == [variant |-> "Redis", v |-> n]

MAX_INSPECT_BYTES == 64

\* min_bytes with the NTP entry 4 in place of 48.
min_bytes_ntp_4(p) ==
    CASE p = "Http" -> 4
      [] p = "Tls" -> 5
      [] p = "Ssh" -> 4
      [] p = "Dns" -> 12
      [] p = "Quic" -> 7
      [] p = "Mysql" -> 10
      [] p = "Postgres" -> 8
      [] p = "Redis" -> 1
      [] p = "Mqtt" -> 12
      [] p = "Smtp" -> 5
      [] p = "Pop3" -> 5
      [] p = "Imap" -> 5
      [] p = "Ftp" -> 5
      [] p = "Smb" -> 4
      [] p = "Stun" -> 20
      [] p = "Sip" -> 12
      [] p = "Rtsp" -> 14
      [] p = "Dhcp" -> 44
      [] p = "Ntp" -> 4

min_bytes(p) ==
    CASE p = "Http" -> 4
      [] p = "Tls" -> 5
      [] p = "Ssh" -> 4
      [] p = "Dns" -> 12
      [] p = "Quic" -> 7
      [] p = "Mysql" -> 10
      [] p = "Postgres" -> 8
      [] p = "Redis" -> 1
      [] p = "Mqtt" -> 12
      [] p = "Smtp" -> 5
      [] p = "Pop3" -> 5
      [] p = "Imap" -> 5
      [] p = "Ftp" -> 5
      [] p = "Smb" -> 4
      [] p = "Stun" -> 20
      [] p = "Sip" -> 12
      [] p = "Rtsp" -> 14
      [] p = "Dhcp" -> 44
      [] p = "Ntp" -> 48

bool_to_status(b) == IF b THEN "Match" ELSE "NoMatch"

\* ------------------------------------------------------------------------
\* DNS (src/protocols/dns.rs)
\* ------------------------------------------------------------------------

\* validate_dns_header bounding every count of a response by 200.
validate_dns_header_counts_200(header) ==
    LET qr_opcode_etc == B(header, 2)
        opcode  == (qr_opcode_etc \div 8) % 16
        z       == (B(header, 3) \div 16) % 8
        qdcount == u16_be(B(header, 4), B(header, 5))
        ancount == u16_be(B(header, 6), B(header, 7))
        nscount == u16_be(B(header, 8), B(header, 9))
        arcount == u16_be(B(header, 10), B(header, 11))
        qr      == (qr_opcode_etc \div 128) % 2
    IN  IF opcode \notin {0, 1, 2, 4, 5} THEN FALSE
        ELSE IF z # 0 THEN FALSE
        ELSE IF qr = 0 /\ (qdcount = 0 \/ qdcount > 10) THEN FALSE
        ELSE IF qr = 0 /\ (ancount > 0 \/ nscount > 0) THEN FALSE
        ELSE IF qr = 0 /\ arcount > 5 THEN FALSE
        ELSE IF qr # 0 /\ (qdcount > 200 \/ ancount > 200
                            \/ nscount > 200 \/ arcount > 200) THEN FALSE
        ELSE IF qdcount + ancount + nscount + arcount = 0 THEN FALSE
        ELSE TRUE

\* validate_dns_header with no bound on the arcount of a query.
validate_dns_header_query_arcount_unbounded(header) ==
    LET qr_opcode_etc == B(header, 2)
        opcode  == (qr_opcode_etc \div 8) % 16
        z       == (B(header, 3) \div 16) % 8
        qdcount == u16_be(B(header, 4), B(header, 5))
        ancount == u16_be(B(header, 6), B(header, 7))
        nscount == u16_be(B(header, 8), B(header, 9))
        arcount == u16_be(B(header, 10), B(header, 11))
        qr      == (qr_opcode_etc \div 128) % 2
    IN  IF opcode \notin {0, 1, 2, 4, 5} THEN FALSE
        ELSE IF z # 0 THEN FALSE
        ELSE IF qr = 0 /\ (qdcount = 0 \/ qdcount > 10) THEN FALSE
        ELSE IF qr = 0 /\ (ancount > 0 \/ nscount > 0) THEN FALSE
        ELSE IF qr # 0 /\ (qdcount > 10 \/ ancount > 200
                            \/ nscount > 100 \/ arcount > 100) THEN FALSE
        ELSE IF qdcount + ancount + nscount + arcount = 0 THEN FALSE
        ELSE TRUE

validate_dns_header(header) ==
    LET qr_opcode_etc == B(header, 2)
        opcode  == (qr_opcode_etc \div 8) % 16
        z       == (B(header, 3) \div 16) % 8
        qdcount == u16_be(B(header, 4), B(header, 5))
        ancount == u16_be(B(header, 6), B(header, 7))
        nscount == u16_be(B(header, 8), B(header, 9))
        arcount == u16_be(B(header, 10), B(header, 11))
        qr      == (qr_opcode_etc \div 128) % 2
    IN  IF opcode \notin {0, 1, 2, 4, 5} THEN FALSE
        ELSE IF z # 0 THEN FALSE
        ELSE IF qr = 0 /\ (qdcount = 0 \/ qdcount > 10) THEN FALSE
        ELSE IF qr = 0 /\ (ancount > 0 \/ nscount > 0) THEN FALSE
        ELSE IF qr = 0 /\ arcount > 5 THEN FALSE
        ELSE IF qr # 0 /\ (qdcount > 10 \/ ancount > 200
                            \/ nscount > 100 \/ arcount > 100) THEN FALSE
        ELSE IF qdcount + ancount + nscount + arcount = 0 THEN FALSE
        ELSE TRUE

dns_detect(data) ==
    IF Len(data) < 12 THEN FALSE
    ELSE IF validate_dns_header(Slice(data, 0, 12))
    THEN IF /\ Len(data) >= 13
            /\ u16_be(B(data, 4), B(data, 5)) > 0
            /\ B(data, 12) > 63
         THEN FALSE
         ELSE TRUE
    ELSE IF /\ Len(data) >= 14
            /\ u16_be(B(data, 0), B(data, 1)) >= 12
            /\ validate_dns_header(Slice(data, 2, 14))
    THEN IF /\ Len(data) >= 15
            /\ u16_be(B(data, 6), B(data, 7)) > 0
            /\ B(data, 14) > 63
         THEN FALSE
         ELSE TRUE
    ELSE FALSE

\* ------------------------------------------------------------------------
\* QUIC (src/protocols/quic.rs)
\* ------------------------------------------------------------------------

quic_detect(data) ==
    IF Len(data) < 7 THEN FALSE
    ELSE
    LET first_byte == B(data, 0)
        \* u32::from_be_bytes([data[1], data[2], data[3], data[4]]), kept as
        \* its four bytes
        version == Slice(data, 1, 5)
        is_valid_version ==
            \/ version = <<0, 0, 0, 1>>
            \/ version = <<0, 0, 0, 0>>
            \/ version = <<107, 51, 67, 207>>                 \* 0x6b3343cf
            \/ Slice(version, 0, 3) = <<255, 0, 0>>    \* 0xff000000..=0xff0000ff
        dcid_len == B(data, 5)
    IN  IF first_byte \div 64 # 3 THEN FALSE           \* & 0xC0 != 0xC0
        ELSE IF ~is_valid_version THEN FALSE
        ELSE IF version # <<0, 0, 0, 0>> /\ (first_byte \div 4) % 4 # 0
        THEN FALSE
        ELSE IF dcid_len > 20 THEN FALSE
        ELSE IF Len(data) <= 6 + dcid_len THEN TRUE
        ELSE IF B(data, 6 + dcid_len) > 20 THEN FALSE
        ELSE TRUE

\* ------------------------------------------------------------------------
\* MySQL (src/protocols/mysql.rs)
\* ------------------------------------------------------------------------

mysql_detect(data) ==
    IF Len(data) < 10 THEN FALSE
    ELSE
    LET payload_len == B(data, 0) + 256 * B(data, 1) + 65536 * B(data, 2)
        search_limit == MinInt(Len(data), 48)
        \* the loop leaves at the first NUL or the first non-printable byte
        stops == {i \in 5..(search_limit - 1) :
                    B(data, i) = 0 \/ B(data, i) < 32 \/ B(data, i) > 126}
    IN  IF payload_len < 30 \/ payload_len > 1024 THEN FALSE
        ELSE IF B(data, 3) # 0 THEN FALSE
        ELSE IF B(data, 4) # 10 THEN FALSE
        ELSE IF stops = {} THEN Len(data) < 20
        ELSE LET idx == MinOf(stops)
             IN  IF B(data, idx) # 0 THEN FALSE
                 ELSE IF Len(data) > idx + 13 /\ B(data, idx + 13) # 0
                 THEN FALSE
                 ELSE TRUE

\* ------------------------------------------------------------------------
\* PostgreSQL (src/protocols/postgres.rs)
\* ------------------------------------------------------------------------

\* The two u32 fields are kept as their four big-endian bytes; `length` is
\* compared through its high and low halves.
postgres_detect(data) ==
    IF Len(data) < 8 THEN FALSE
    ELSE
    LET length_hi == u16_be(B(data, 0), B(data, 1))
        length_lo == u16_be(B(data, 2), B(data, 3))
        code   == Slice(data, 4, 8)
        limit  == MinInt(Len(data), 64)
        \* the payload scan leaves at the first NUL or non-printable byte
        stops  == {i \in 8..(limit - 1) :
                     B(data, i) = 0 \/ B(data, i) < 32 \/ B(data, i) > 126}
    IN  IF length_hi = 0 /\ length_lo = 8 /\ code = <<4, 210, 22, 47>>
        THEN TRUE                                \* length 8, code 0x04D2162F
        ELSE IF /\ length_hi = 0 /\ length_lo >= 8 /\ length_lo <= 4096
                /\ code = <<0, 3, 0, 0>>                       \* 0x00030000
        THEN IF Len(data) >= 12
             THEN IF stops = {} THEN FALSE
                  ELSE B(data, MinOf(stops)) = 0
             ELSE TRUE
        ELSE FALSE

\* ------------------------------------------------------------------------
\* MQTT (src/protocols/mqtt.rs)
\* ------------------------------------------------------------------------

\* The Remaining Length loop.  It runs at most four times (offset 1..4), so
\* remaining_length stays below 128^4 = 2^28 and multiplier reaches at most
\* 128^4: neither u32 wraps.
RECURSIVE mqtt_remaining_length(_, _, _, _)
mqtt_remaining_length(data, offset, remaining_length, multiplier) ==
    IF offset < 5 /\ offset < Len(data)
    THEN LET b  == B(data, offset)
             rl == remaining_length + (b % 128) * multiplier
         IN  IF b \div 128 = 0
             THEN [offset |-> offset + 1, remaining_length |-> rl,
                   found_len |-> TRUE, multiplier |-> multiplier]
             ELSE mqtt_remaining_length(data, offset + 1, rl,
                                        multiplier * 128)
    ELSE [offset |-> offset, remaining_length |-> remaining_length,
          found_len |-> FALSE, multiplier |-> multiplier]

\* mqtt::detect without the cross-validation of Remaining Length.
mqtt_detect_length_unchecked(data) ==
    IF Len(data) < 12 THEN FALSE
    ELSE IF B(data, 0) # 16 THEN FALSE
    ELSE
    LET r == mqtt_remaining_length(data, 1, 0, 1)
        offset == r.offset
    IN  IF ~r.found_len \/ Len(data) < offset + 2 THEN FALSE
        ELSE
        LET name_len == u16_be(B(data, offset), B(data, offset + 1))
            off2 == offset + 2
        IN  IF name_len # 4 /\ name_len # 6 THEN FALSE
            ELSE IF Len(data) < off2 + name_len + 1 THEN FALSE
            ELSE
            LET name  == Slice(data, off2, off2 + name_len)
                level == B(data, off2 + name_len)
            IN  IF name = <<77, 81, 84, 84>> (* b"MQTT" *) THEN level = 4 \/ level = 5
                ELSE IF name = <<77, 81, 73, 115, 100, 112>> (* b"MQIsdp" *) THEN level = 3
                ELSE FALSE

mqtt_detect(data) ==
    IF Len(data) < 12 THEN FALSE
    ELSE IF B(data, 0) # 16 THEN FALSE
    ELSE
    LET r == mqtt_remaining_length(data, 1, 0, 1)
        offset == r.offset
    IN  IF ~r.found_len \/ Len(data) < offset + 2 THEN FALSE
        ELSE
        LET name_len == u16_be(B(data, offset), B(data, offset + 1))
            off2 == offset + 2
        IN  IF r.remaining_length < name_len + 6 THEN FALSE
            ELSE IF name_len # 4 /\ name_len # 6 THEN FALSE
            ELSE IF Len(data) < off2 + name_len + 1 THEN FALSE
            ELSE
            LET name  == Slice(data, off2, off2 + name_len)
                level == B(data, off2 + name_len)
            IN  IF name = <<77, 81, 84, 84>> (* b"MQTT" *) THEN level = 4 \/ level = 5
                ELSE IF name = <<77, 81, 73, 115, 100, 112>> (* b"MQIsdp" *) THEN level = 3
                ELSE FALSE

\* ------------------------------------------------------------------------
\* Text-line helpers shared by SMTP, POP3, FTP and IMAP.  The four files
\* each carry their own identical copy of is_command and validate_line.
\* ------------------------------------------------------------------------

is_command(data, cmd) ==
    IF ~starts_with(data, cmd) THEN FALSE
    ELSE IF Len(data) = Len(cmd) THEN TRUE
    ELSE B(data, Len(cmd)) \in {32, 13, 10}

validate_line(data) ==
    LET limit == MinInt(Len(data), 64)
        \* the loop leaves at the first newline or the first bad byte
        stops == {i \in 0..(limit - 1) :
                    \/ B(data, i) = 10
                    \/ (B(data, i) # 13 /\ B(data, i) # 9
                        /\ (B(data, i) < 32 \/ B(data, i) > 126))}
    IN  IF stops = {} THEN Len(data) >= 16
        ELSE IF B(data, MinOf(stops)) = 10 THEN TRUE
        ELSE FALSE

\* ------------------------------------------------------------------------
\* SMTP (src/protocols/smtp.rs)
\* ------------------------------------------------------------------------

smtp_detect(data) ==
    IF Len(data) < 5 THEN FALSE
    ELSE IF starts_with(data, <<50, 50, 48, 32>> (* b"220 " *)) \/ starts_with(data, <<50, 50, 48, 45>> (* b"220-" *))
    THEN validate_line(data)
    ELSE IF \/ is_command(data, <<69, 72, 76, 79>> (* b"EHLO" *))
            \/ is_command(data, <<72, 69, 76, 79>> (* b"HELO" *))
            \/ starts_with(data, <<77, 65, 73, 76, 32, 70, 82, 79, 77, 58>> (* b"MAIL FROM:" *))
            \/ starts_with(data, <<82, 67, 80, 84, 32, 84, 79, 58>> (* b"RCPT TO:" *))
            \/ is_command(data, <<68, 65, 84, 65>> (* b"DATA" *))
            \/ is_command(data, <<81, 85, 73, 84>> (* b"QUIT" *))
            \/ is_command(data, <<83, 84, 65, 82, 84, 84, 76, 83>> (* b"STARTTLS" *))
            \/ is_command(data, <<86, 82, 70, 89>> (* b"VRFY" *))
            \/ is_command(data, <<69, 88, 80, 78>> (* b"EXPN" *))
    THEN validate_line(data)
    ELSE FALSE

\* ------------------------------------------------------------------------
\* POP3 (src/protocols/pop3.rs)
\* ------------------------------------------------------------------------

\* pop3::detect accepting `+OK` without the space after it
pop3_detect_ok_without_space(data) ==
    IF Len(data) < 5 THEN FALSE
    ELSE IF starts_with(data, <<43, 79, 75>>) \/ starts_with(data, <<45, 69, 82, 82, 32>>)
    THEN validate_line(data)
    ELSE IF \/ is_command(data, <<85, 83, 69, 82>>)
            \/ is_command(data, <<80, 65, 83, 83>>)
            \/ is_command(data, <<83, 84, 65, 84>>)
            \/ is_command(data, <<76, 73, 83, 84>>)
            \/ is_command(data, <<82, 69, 84, 82>>)
            \/ is_command(data, <<81, 85, 73, 84>>)
            \/ is_command(data, <<67, 65, 80, 65>>)
    THEN validate_line(data)
    ELSE FALSE

pop3_detect(data) ==
    IF Len(data) < 5 THEN FALSE
    ELSE IF starts_with(data, <<43, 79, 75, 32>> (* b"+OK " *)) \/ starts_with(data, <<45, 69, 82, 82, 32>> (* b"-ERR " *))
    THEN validate_line(data)
    ELSE IF \/ is_command(data, <<85, 83, 69, 82>> (* b"USER" *))
            \/ is_command(data, <<80, 65, 83, 83>> (* b"PASS" *))
            \/ is_command(data, <<83, 84, 65, 84>> (* b"STAT" *))
            \/ is_command(data, <<76, 73, 83, 84>> (* b"LIST" *))
            \/ is_command(data, <<82, 69, 84, 82>> (* b"RETR" *))
            \/ is_command(data, <<81, 85, 73, 84>> (* b"QUIT" *))
            \/ is_command(data, <<67, 65, 80, 65>> (* b"CAPA" *))
    THEN validate_line(data)
    ELSE FALSE

\* ------------------------------------------------------------------------
\* FTP (src/protocols/ftp.rs)
\* ------------------------------------------------------------------------

\* ftp::detect taking only `220 ` for a greeting.
ftp_detect_greeting_space_only(data) ==
    IF Len(data) < 5 THEN FALSE
    ELSE IF starts_with(data, <<50, 50, 48, 32>> (* b"220 " *))
    THEN validate_line(data)
    ELSE IF \/ is_command(data, <<85, 83, 69, 82>> (* b"USER" *))
            \/ is_command(data, <<80, 65, 83, 83>> (* b"PASS" *))
            \/ is_command(data, <<65, 85, 84, 72>> (* b"AUTH" *))
            \/ is_command(data, <<83, 89, 83, 84>> (* b"SYST" *))
            \/ is_command(data, <<70, 69, 65, 84>> (* b"FEAT" *))
            \/ is_command(data, <<81, 85, 73, 84>> (* b"QUIT" *))
            \/ is_command(data, <<80, 65, 83, 86>> (* b"PASV" *))
            \/ is_command(data, <<69, 80, 83, 86>> (* b"EPSV" *))
            \/ is_command(data, <<84, 89, 80, 69>> (* b"TYPE" *))
            \/ is_command(data, <<80, 87, 68>> (* b"PWD" *))
    THEN validate_line(data)
    ELSE FALSE

ftp_detect(data) ==
    IF Len(data) < 5 THEN FALSE
    ELSE IF starts_with(data, <<50, 50, 48, 32>> (* b"220 " *)) \/ starts_with(data, <<50, 50, 48, 45>> (* b"220-" *))
    THEN validate_line(data)
    ELSE IF \/ is_command(data, <<85, 83, 69, 82>> (* b"USER" *))
            \/ is_command(data, <<80, 65, 83, 83>> (* b"PASS" *))
            \/ is_command(data, <<65, 85, 84, 72>> (* b"AUTH" *))
            \/ is_command(data, <<83, 89, 83, 84>> (* b"SYST" *))
            \/ is_command(data, <<70, 69, 65, 84>> (* b"FEAT" *))
            \/ is_command(data, <<81, 85, 73, 84>> (* b"QUIT" *))
            \/ is_command(data, <<80, 65, 83, 86>> (* b"PASV" *))
            \/ is_command(data, <<69, 80, 83, 86>> (* b"EPSV" *))
            \/ is_command(data, <<84, 89, 80, 69>> (* b"TYPE" *))
            \/ is_command(data, <<80, 87, 68>> (* b"PWD" *))
    THEN validate_line(data)
    ELSE FALSE

\* ------------------------------------------------------------------------
\* IMAP (src/protocols/imap.rs)
\* ------------------------------------------------------------------------

is_tag_char(b) == is_ascii_alphanumeric(b) \/ b = 46 \/ b = 95 \/ b = 45

is_imap_command(cmd) ==
    cmd \in {<<76, 79, 71, 73, 78>> (* b"LOGIN" *), <<76, 79, 71, 79, 85, 84>> (* b"LOGOUT" *), <<67, 65, 80, 65, 66, 73, 76, 73, 84, 89>> (* b"CAPABILITY" *), <<78, 79, 79, 80>> (* b"NOOP" *), <<83, 84, 65, 82, 84, 84, 76, 83>> (* b"STARTTLS" *),
             <<65, 85, 84, 72, 69, 78, 84, 73, 67, 65, 84, 69>> (* b"AUTHENTICATE" *), <<83, 69, 76, 69, 67, 84>> (* b"SELECT" *), <<69, 88, 65, 77, 73, 78, 69>> (* b"EXAMINE" *), <<67, 82, 69, 65, 84, 69>> (* b"CREATE" *), <<68, 69, 76, 69, 84, 69>> (* b"DELETE" *),
             <<82, 69, 78, 65, 77, 69>> (* b"RENAME" *), <<83, 85, 66, 83, 67, 82, 73, 66, 69>> (* b"SUBSCRIBE" *), <<85, 78, 83, 85, 66, 83, 67, 82, 73, 66, 69>> (* b"UNSUBSCRIBE" *), <<76, 73, 83, 84>> (* b"LIST" *), <<76, 83, 85, 66>> (* b"LSUB" *),
             <<83, 84, 65, 84, 85, 83>> (* b"STATUS" *), <<65, 80, 80, 69, 78, 68>> (* b"APPEND" *), <<67, 72, 69, 67, 75>> (* b"CHECK" *), <<67, 76, 79, 83, 69>> (* b"CLOSE" *), <<69, 88, 80, 85, 78, 71, 69>> (* b"EXPUNGE" *),
             <<83, 69, 65, 82, 67, 72>> (* b"SEARCH" *), <<70, 69, 84, 67, 72>> (* b"FETCH" *), <<83, 84, 79, 82, 69>> (* b"STORE" *), <<67, 79, 80, 89>> (* b"COPY" *), <<85, 73, 68>> (* b"UID" *), <<73, 68>> (* b"ID" *),
             <<69, 78, 65, 66, 76, 69>> (* b"ENABLE" *), <<73, 68, 76, 69>> (* b"IDLE" *), <<78, 65, 77, 69, 83, 80, 65, 67, 69>> (* b"NAMESPACE" *)}

\* Number of leading positions from `from` (bounded by `cap`) whose byte
\* satisfies the scan; the while loops of imap::detect stop at the first
\* index that fails.
imap_tag_end(data) ==
    LET bad == {i \in 0..(MinInt(Len(data), 20) - 1) :
                  ~is_tag_char(B(data, i))}
    IN  IF bad = {} THEN MinInt(Len(data), 20) ELSE MinOf(bad)

imap_cmd_end(data, cmd_start) ==
    LET cap == MinInt(Len(data), cmd_start + 16)
        bad == {j \in cmd_start..(cap - 1) : ~is_ascii_uppercase(B(data, j))}
    IN  IF bad = {} THEN cap ELSE MinOf(bad)

imap_detect(data) ==
    IF Len(data) < 5 THEN FALSE
    ELSE IF /\ starts_with(data, <<42, 32>> (* b"* " *))
            /\ LET after_star == Slice(data, 2, Len(data))
               IN  \/ starts_with(after_star, <<79, 75, 32>> (* b"OK " *))
                   \/ starts_with(after_star, <<80, 82, 69, 65, 85, 84, 72, 32>> (* b"PREAUTH " *))
                   \/ starts_with(after_star, <<66, 89, 69, 32>> (* b"BYE " *))
                   \/ starts_with(after_star, <<78, 79, 32>> (* b"NO " *))
                   \/ starts_with(after_star, <<66, 65, 68, 32>> (* b"BAD " *))
    THEN validate_line(data)
    ELSE
    LET i == imap_tag_end(data)
    IN  IF i > 0 /\ i + 1 < Len(data) /\ B(data, i) = 32
        THEN LET cmd_start == i + 1
                 j == imap_cmd_end(data, cmd_start)
             IN  IF j - cmd_start >= 2
                    /\ is_imap_command(Slice(data, cmd_start, j))
                 THEN validate_line(data)
                 ELSE FALSE
        ELSE FALSE

\* ------------------------------------------------------------------------
\* SIP (src/protocols/sip.rs)
\* ------------------------------------------------------------------------

is_sip_request(data) ==
    \/ starts_with(data, <<73, 78, 86, 73, 84, 69, 32>> (* b"INVITE " *)) \/ starts_with(data, <<73, 78, 70, 79, 32>> (* b"INFO " *))
    \/ starts_with(data, <<65, 67, 75, 32>> (* b"ACK " *))
    \/ starts_with(data, <<66, 89, 69, 32>> (* b"BYE " *))
    \/ starts_with(data, <<67, 65, 78, 67, 69, 76, 32>> (* b"CANCEL " *))
    \/ starts_with(data, <<79, 80, 84, 73, 79, 78, 83, 32>> (* b"OPTIONS " *))
    \/ starts_with(data, <<82, 69, 71, 73, 83, 84, 69, 82, 32>> (* b"REGISTER " *)) \/ starts_with(data, <<82, 69, 70, 69, 82, 32>> (* b"REFER " *))
    \/ starts_with(data, <<80, 82, 65, 67, 75, 32>> (* b"PRACK " *)) \/ starts_with(data, <<80, 85, 66, 76, 73, 83, 72, 32>> (* b"PUBLISH " *))
    \/ starts_with(data, <<85, 80, 68, 65, 84, 69, 32>> (* b"UPDATE " *))
    \/ starts_with(data, <<83, 85, 66, 83, 67, 82, 73, 66, 69, 32>> (* b"SUBSCRIBE " *))
    \/ starts_with(data, <<78, 79, 84, 73, 70, 89, 32>> (* b"NOTIFY " *))
    \/ starts_with(data, <<77, 69, 83, 83, 65, 71, 69, 32>> (* b"MESSAGE " *))

\* Shared shape of validate_sip_line / validate_rtsp_line: scan the first
\* min(len, 64) bytes, stop at the first CR or LF (end_of_line), fail on a
\* non-printable byte met before it.  Result: -1 on failure, else
\* end_of_line.
request_line_end(data) ==
    LET limit == MinInt(Len(data), 64)
        stops == {i \in 0..(limit - 1) :
                    \/ B(data, i) = 10 \/ B(data, i) = 13
                    \/ B(data, i) < 32 \/ B(data, i) > 126}
    IN  IF stops = {} THEN limit
        ELSE IF B(data, MinOf(stops)) \in {10, 13} THEN MinOf(stops)
        ELSE -1

validate_sip_line(data, is_response) ==
    LET end_of_line == request_line_end(data)
    IN  IF end_of_line = -1 THEN FALSE
        ELSE IF is_response THEN TRUE
        ELSE LET line == Slice(data, 0, end_of_line)
             IN  /\ Len(line) > 8
                 /\ \E i \in 0..(Len(line) - 8) :
                        Slice(line, i, i + 8) = <<32, 83, 73, 80, 47, 50, 46, 48>> (* b" SIP/2.0" *)

sip_detect(data) ==
    IF Len(data) < 12 THEN FALSE
    ELSE IF starts_with(data, <<83, 73, 80, 47, 50, 46, 48, 32>> (* b"SIP/2.0 " *)) THEN validate_sip_line(data, TRUE)
    ELSE IF is_sip_request(data) THEN validate_sip_line(data, FALSE)
    ELSE FALSE

\* ------------------------------------------------------------------------
\* RTSP (src/protocols/rtsp.rs)
\* ------------------------------------------------------------------------

is_rtsp_request(data) ==
    \/ starts_with(data, <<79, 80, 84, 73, 79, 78, 83, 32>> (* b"OPTIONS " *))
    \/ starts_with(data, <<68, 69, 83, 67, 82, 73, 66, 69, 32>> (* b"DESCRIBE " *))
    \/ starts_with(data, <<83, 69, 84, 85, 80, 32>> (* b"SETUP " *)) \/ starts_with(data, <<83, 69, 84, 95, 80, 65, 82, 65, 77, 69, 84, 69, 82, 32>> (* b"SET_PARAMETER " *))
    \/ starts_with(data, <<80, 76, 65, 89, 32>> (* b"PLAY " *)) \/ starts_with(data, <<80, 65, 85, 83, 69, 32>> (* b"PAUSE " *))
    \/ starts_with(data, <<84, 69, 65, 82, 68, 79, 87, 78, 32>> (* b"TEARDOWN " *))
    \/ starts_with(data, <<71, 69, 84, 95, 80, 65, 82, 65, 77, 69, 84, 69, 82, 32>> (* b"GET_PARAMETER " *))
    \/ starts_with(data, <<82, 69, 68, 73, 82, 69, 67, 84, 32>> (* b"REDIRECT " *)) \/ starts_with(data, <<82, 69, 67, 79, 82, 68, 32>> (* b"RECORD " *))
    \/ starts_with(data, <<65, 78, 78, 79, 85, 78, 67, 69, 32>> (* b"ANNOUNCE " *))

validate_rtsp_line(data, is_response) ==
    LET end_of_line == request_line_end(data)
    IN  IF end_of_line = -1 THEN FALSE
        ELSE IF is_response THEN TRUE
        ELSE LET line == Slice(data, 0, end_of_line)
             IN  /\ Len(line) > 9
                 /\ \E i \in 0..(Len(line) - 9) :
                        Slice(line, i, i + 9) \in {<<32, 82, 84, 83, 80, 47, 49, 46, 48>> (* b" RTSP/1.0" *), <<32, 82, 84, 83, 80, 47, 50, 46, 48>> (* b" RTSP/2.0" *)}

rtsp_detect(data) ==
    IF Len(data) < 14 THEN FALSE
    ELSE IF starts_with(data, <<82, 84, 83, 80, 47, 49, 46, 48, 32>> (* b"RTSP/1.0 " *)) \/ starts_with(data, <<82, 84, 83, 80, 47, 50, 46, 48, 32>> (* b"RTSP/2.0 " *))
    THEN validate_rtsp_line(data, TRUE)
    ELSE IF is_rtsp_request(data) THEN validate_rtsp_line(data, FALSE)
    ELSE FALSE

\* ------------------------------------------------------------------------
\* SMB (src/protocols/smb.rs)
\* ------------------------------------------------------------------------

smb_detect(data) ==
    IF Len(data) < 4 THEN FALSE
    ELSE IF Slice(data, 0, 4) \in {<<255, 83, 77, 66>> (* b"\xffSMB" *), <<254, 83, 77, 66>> (* b"\xfeSMB" *)} THEN TRUE
    ELSE IF Len(data) >= 8 /\ B(data, 0) = 0
    THEN LET len == (B(data, 1) * 256 + B(data, 2)) * 256 + B(data, 3)
             inner_magic == Slice(data, 4, 8)
         IN  IF inner_magic = <<255, 83, 77, 66>> (* b"\xffSMB" *) THEN len >= 32
             ELSE IF inner_magic = <<254, 83, 77, 66>> (* b"\xfeSMB" *) THEN len >= 64
             ELSE FALSE
    ELSE FALSE

\* ------------------------------------------------------------------------
\* STUN (src/protocols/stun.rs)
\* ------------------------------------------------------------------------

stun_detect(data) ==
    IF Len(data) < 20 THEN FALSE
    ELSE IF Slice(data, 4, 8) # <<33, 18, 164, 66>> THEN FALSE  \* 21 12 A4 42
    ELSE IF B(data, 0) \div 64 # 0 THEN FALSE                   \* & 0xC0
    ELSE IF u16_be(B(data, 2), B(data, 3)) % 4 # 0 THEN FALSE
    ELSE TRUE

\* ------------------------------------------------------------------------
\* DHCP (src/protocols/dhcp.rs)
\* ------------------------------------------------------------------------

dhcp_detect(data) ==
    IF Len(data) < 44 THEN FALSE
    ELSE
    LET op == B(data, 0)
        htype == B(data, 1)
        hlen == B(data, 2)
    IN  IF op # 1 /\ op # 2 THEN FALSE
        ELSE IF htype \in {1, 6} /\ hlen # 6 THEN FALSE
        ELSE IF htype \in {1, 6} /\ (\E i \in 34..43 : B(data, i) # 0)
        THEN FALSE
        ELSE IF htype \notin {1, 6} /\ (hlen = 0 \/ hlen > 16) THEN FALSE
        ELSE IF B(data, 3) > 16 THEN FALSE
        ELSE IF B(data, 10) % 128 # 0 \/ B(data, 11) # 0 THEN FALSE
        ELSE IF Len(data) >= 240
        THEN Slice(data, 236, 240) = <<99, 130, 83, 99>>        \* 63 82 53 63
        ELSE TRUE

\* ------------------------------------------------------------------------
\* NTP (src/protocols/ntp.rs)
\* ------------------------------------------------------------------------

as_i8(b) == IF b >= 128 THEN b - 256 ELSE b

ntp_detect(data) ==
    IF Len(data) < 48 THEN FALSE
    ELSE
    LET first_byte == B(data, 0)
        vn == (first_byte \div 8) % 8
        mode == first_byte % 8
        precision == as_i8(B(data, 3))
    IN  IF vn < 1 \/ vn > 4 THEN FALSE
        ELSE IF mode < 1 \/ mode > 7 THEN FALSE
        ELSE IF B(data, 1) > 16 THEN FALSE
        ELSE IF B(data, 2) > 20 THEN FALSE
        ELSE IF precision < -32 \/ precision > 16 THEN FALSE
        ELSE IF \A i \in 40..47 : B(data, i) = 0 THEN FALSE
        ELSE TRUE

\* ------------------------------------------------------------------------
\* TLS (src/protocols/tls.rs)
\* ------------------------------------------------------------------------

is_valid_handshake_type(ht) ==
    ht \in {0, 1, 2, 4, 5, 6, 8, 11, 12, 13, 14, 15, 16, 20, 24, 25, 254}

\* validate_handshake with the hello body threshold at 33 instead of 34
validate_handshake_hello_min_33(data, record_length) ==
    IF record_length < 4 THEN FALSE
    ELSE IF Len(data) < 6 THEN TRUE
    ELSE
    LET hs_type == B(data, 5)
    IN  IF ~is_valid_handshake_type(hs_type) THEN FALSE
        ELSE IF Len(data) >= 9
        THEN LET hs_body_len ==
                     (B(data, 6) * 256 + B(data, 7)) * 256 + B(data, 8)
             IN  IF hs_type \in {1, 2}
                 THEN IF hs_body_len < 33 THEN FALSE
                      ELSE IF Len(data) >= 10 /\ B(data, 9) # 3 THEN FALSE
                      ELSE TRUE
                 ELSE IF hs_type = 11 THEN ~(hs_body_len < 3)
                 ELSE IF hs_type \in {0, 14} THEN hs_body_len = 0
                 ELSE TRUE
        ELSE TRUE

validate_handshake(data, record_length) ==
    IF record_length < 4 THEN FALSE
    ELSE IF Len(data) < 6 THEN TRUE
    ELSE
    LET hs_type == B(data, 5)
    IN  IF ~is_valid_handshake_type(hs_type) THEN FALSE
        ELSE IF Len(data) >= 9
        THEN LET hs_body_len ==
                     (B(data, 6) * 256 + B(data, 7)) * 256 + B(data, 8)
             IN  IF hs_type \in {1, 2}
                 THEN IF hs_body_len < 34 THEN FALSE
                      ELSE IF Len(data) >= 10 /\ B(data, 9) # 3 THEN FALSE
                      ELSE TRUE
                 ELSE IF hs_type = 11 THEN ~(hs_body_len < 3)
                 ELSE IF hs_type \in {0, 14} THEN hs_body_len = 0
                 ELSE TRUE
        ELSE TRUE

detect_tls_record(data) ==
    LET content_type == B(data, 0)
        record_length == u16_be(B(data, 3), B(data, 4))
    IN  IF content_type < 20 \/ content_type > 23 THEN FALSE
        ELSE IF B(data, 1) # 3 THEN FALSE
        ELSE IF B(data, 2) > 4 THEN FALSE
        ELSE IF record_length = 0 \/ record_length > 16384 THEN FALSE
        ELSE IF content_type = 22 THEN validate_handshake(data, record_length)
        ELSE IF content_type = 20 THEN record_length = 1
        ELSE IF content_type = 21 THEN record_length = 2
        ELSE TRUE

\* detect_sslv2 without the CLIENT-HELLO test of byte 2.
detect_sslv2_any_msg_type(data) ==
    IF Len(data) < 11 THEN FALSE
    ELSE
    LET valid_version ==
            \/ (B(data, 3) = 0 /\ B(data, 4) = 2)
            \/ (B(data, 3) = 3 /\ B(data, 4) <= 4)
        record_length == (B(data, 0) % 128) * 256 + B(data, 1)
        cipher_spec_len == u16_be(B(data, 5), B(data, 6))
        session_id_len == u16_be(B(data, 7), B(data, 8))
        challenge_len == u16_be(B(data, 9), B(data, 10))
        body_total == cipher_spec_len + session_id_len + challenge_len
    IN  IF ~valid_version THEN FALSE
        ELSE IF record_length < 9 THEN FALSE
        ELSE IF cipher_spec_len = 0 \/ cipher_spec_len % 3 # 0 THEN FALSE
        ELSE IF challenge_len = 0 THEN FALSE
        ELSE IF body_total # record_length - 9 THEN FALSE
        ELSE TRUE

detect_sslv2(data) ==
    IF Len(data) < 11 THEN FALSE
    ELSE IF B(data, 2) # 1 THEN FALSE
    ELSE
    LET valid_version ==
            \/ (B(data, 3) = 0 /\ B(data, 4) = 2)
            \/ (B(data, 3) = 3 /\ B(data, 4) <= 4)
        record_length == (B(data, 0) % 128) * 256 + B(data, 1)
        cipher_spec_len == u16_be(B(data, 5), B(data, 6))
        session_id_len == u16_be(B(data, 7), B(data, 8))
        challenge_len == u16_be(B(data, 9), B(data, 10))
        body_total == cipher_spec_len + session_id_len + challenge_len
    IN  IF ~valid_version THEN FALSE
        ELSE IF record_length < 9 THEN FALSE
        ELSE IF cipher_spec_len = 0 \/ cipher_spec_len % 3 # 0 THEN FALSE
        ELSE IF challenge_len = 0 THEN FALSE
        ELSE IF body_total # record_length - 9 THEN FALSE
        ELSE TRUE

tls_detect(data) ==
    IF Len(data) < 5 THEN FALSE
    ELSE IF B(data, 0) \div 128 # 0 THEN detect_sslv2(data)
    ELSE detect_tls_record(data)

\* ------------------------------------------------------------------------
\* The three-valued validators of HTTP, TLS, SSH and Redis.
\* src/lib.rs dispatches these four protocols to protocols::<p>::probe,
\* which returns (DetectionStatus, ProtocolVersion).  They are modelled from
\* the validator rules of the specification (section 4.1); tls_probe keeps
\* the record checks of src/protocols/tls.rs for its Match decision.
\* A probe result is a record [status, version].
\* ------------------------------------------------------------------------

PR(status, version) == [status |-> status, version |-> version]

is_strict_prefix(data, full) ==
    /\ Len(data) < Len(full)
    /\ SubSeq(full, 1, Len(data)) = data

HttpMethods ==
    {<<71, 69, 84, 32>> (* b"GET " *), <<80, 85, 84, 32>> (* b"PUT " *), <<80, 79, 83, 84, 32>> (* b"POST " *), <<72, 69, 65, 68, 32>> (* b"HEAD " *), <<68, 69, 76, 69, 84, 69, 32>> (* b"DELETE " *), <<79, 80, 84, 73, 79, 78, 83, 32>> (* b"OPTIONS " *),
     <<80, 65, 84, 67, 72, 32>> (* b"PATCH " *), <<67, 79, 78, 78, 69, 67, 84, 32>> (* b"CONNECT " *)}

H2Preface == <<80, 82, 73, 32, 42, 32, 72, 84, 84, 80, 47, 50, 46, 48, 13, 10, 13, 10, 83, 77, 13, 10, 13, 10>> (* b"PRI * HTTP/2.0\x0d\x0a\x0d\x0aSM\x0d\x0a\x0d\x0a" *)

HttpResponsePrefixes == {<<72, 84, 84, 80, 47, 49, 46, 48, 32>> (* b"HTTP/1.0 " *), <<72, 84, 84, 80, 47, 49, 46, 49, 32>> (* b"HTTP/1.1 " *), <<72, 84, 84, 80, 47, 50, 32>> (* b"HTTP/2 " *), <<72, 84, 84, 80, 47, 50, 46, 48, 32>> (* b"HTTP/2.0 " *)}

is_valid_request_target(data, offset) ==
    IF Len(data) <= offset THEN TRUE
    ELSE LET b == B(data, offset)
         IN  b = 47 \/ b = 42 \/ is_ascii_alphanumeric(b)

\* http::check_method_and_target comparing the method name only.
check_method_and_target_name_only(data, method_with_space) ==
    LET len == Len(method_with_space)
    IN  IF Len(data) < len THEN FALSE
        ELSE IF ~starts_with(data, SubSeq(method_with_space, 1, len - 1))
        THEN FALSE
        ELSE is_valid_request_target(data, len)

check_method_and_target(data, method_with_space) ==
    LET len == Len(method_with_space)
    IN  IF Len(data) < len THEN FALSE
        ELSE IF ~starts_with(data, method_with_space) THEN FALSE
        ELSE is_valid_request_target(data, len)

detect_response(data) ==
    IF /\ Len(data) >= 10
       /\ Slice(data, 4, 9) \in {<<47, 49, 46, 48, 32>> (* b"/1.0 " *), <<47, 49, 46, 49, 32>> (* b"/1.1 " *)}
       /\ is_ascii_digit(B(data, 9))
    THEN TRUE
    ELSE IF Len(data) >= 8 /\ B(data, 4) = 47 /\ B(data, 5) = 50
    THEN IF B(data, 6) = 32 /\ is_ascii_digit(B(data, 7)) THEN TRUE
         ELSE IF /\ Len(data) >= 10
                 /\ Slice(data, 6, 9) = <<46, 48, 32>> (* b".0 " *)
                 /\ is_ascii_digit(B(data, 9))
         THEN TRUE
         ELSE FALSE
    ELSE FALSE

\* http::detect, the two-valued HTTP validator of src/protocols/http.rs.
http_detect(data) ==
    IF Len(data) < 4 THEN FALSE
    ELSE LET head == Slice(data, 0, 4)
         IN  IF head \in {<<71, 69, 84, 32>> (* b"GET " *), <<80, 85, 84, 32>> (* b"PUT " *)} THEN is_valid_request_target(data, 4)
             ELSE IF head = <<80, 79, 83, 84>> (* b"POST" *) THEN check_method_and_target(data, <<80, 79, 83, 84, 32>> (* b"POST " *))
             ELSE IF head = <<72, 69, 65, 68>> (* b"HEAD" *) THEN check_method_and_target(data, <<72, 69, 65, 68, 32>> (* b"HEAD " *))
             ELSE IF head = <<68, 69, 76, 69>> (* b"DELE" *) THEN check_method_and_target(data, <<68, 69, 76, 69, 84, 69, 32>> (* b"DELETE " *))
             ELSE IF head = <<79, 80, 84, 73>> (* b"OPTI" *) THEN check_method_and_target(data, <<79, 80, 84, 73, 79, 78, 83, 32>> (* b"OPTIONS " *))
             ELSE IF head = <<80, 65, 84, 67>> (* b"PATC" *) THEN check_method_and_target(data, <<80, 65, 84, 67, 72, 32>> (* b"PATCH " *))
             ELSE IF head = <<67, 79, 78, 78>> (* b"CONN" *) THEN check_method_and_target(data, <<67, 79, 78, 78, 69, 67, 84, 32>> (* b"CONNECT " *))
             ELSE IF head = <<80, 82, 73, 32>> (* b"PRI " *) THEN starts_with(data, <<80, 82, 73, 32, 42, 32, 72, 84, 84, 80, 47, 50>> (* b"PRI * HTTP/2" *))
             ELSE IF head = <<72, 84, 84, 80>> (* b"HTTP" *) THEN detect_response(data)
             ELSE FALSE

\* A request line ` HTTP/1.x` before the first `\n` gives the version.
http_request_version(data) ==
    LET nls  == {i \in 0..(Len(data) - 1) : B(data, i) = 10}
        eol  == IF nls = {} THEN Len(data) ELSE MinOf(nls)
        hits == {i \in 0..(eol - 9) :
                   /\ Slice(data, i, i + 8) = <<32, 72, 84, 84, 80, 47, 49, 46>> (* b" HTTP/1." *)
                   /\ B(data, i + 8) \in {48, 49}}
    IN  IF hits = {} THEN VUnknown
        ELSE IF B(data, MinOf(hits) + 8) = 48 THEN VHttp("1.0")
        ELSE VHttp("1.1")

http_probe(data) ==
    IF \E m \in HttpMethods : starts_with(data, m)
    THEN LET m == CHOOSE m \in HttpMethods : starts_with(data, m)
         IN  IF is_valid_request_target(data, Len(m))
             THEN PR("Match", http_request_version(data))
             ELSE PR("NoMatch", VUnknown)
    ELSE IF \E r \in HttpResponsePrefixes :
                /\ starts_with(data, r)
                /\ Len(data) > Len(r)
                /\ is_ascii_digit(B(data, Len(r)))
    THEN IF starts_with(data, <<72, 84, 84, 80, 47, 49, 46, 48, 32>> (* b"HTTP/1.0 " *)) THEN PR("Match", VHttp("1.0"))
         ELSE IF starts_with(data, <<72, 84, 84, 80, 47, 49, 46, 49, 32>> (* b"HTTP/1.1 " *)) THEN PR("Match", VHttp("1.1"))
         ELSE PR("Match", VUnknown)
    ELSE IF starts_with(data, H2Preface) THEN PR("Match", VUnknown)
    ELSE IF \/ \E m \in HttpMethods : is_strict_prefix(data, m)
            \/ \E r \in HttpResponsePrefixes :
                   is_strict_prefix(data, r) \/ data = r
            \/ is_strict_prefix(data, H2Preface)
    THEN PR("Incomplete", VUnknown)
    ELSE PR("NoMatch", VUnknown)

tls_version_name(major, minor) ==
    IF major = 3 /\ minor = 1 THEN VTls("1.0")
    ELSE IF major = 3 /\ minor = 2 THEN VTls("1.1")
    ELSE IF major = 3 /\ minor = 3 THEN VTls("1.2")
    ELSE IF major = 3 /\ minor = 4 THEN VTls("1.3")
    ELSE VUnknown

tls_probe(data) ==
    IF ~tls_detect(data) THEN PR("NoMatch", VUnknown)
    ELSE IF B(data, 0) \div 128 # 0
    THEN PR("Match", tls_version_name(B(data, 3), B(data, 4)))
    ELSE IF B(data, 0) = 22 /\ Len(data) >= 11 /\ B(data, 5) = 1
    THEN PR("Match", tls_version_name(B(data, 9), B(data, 10)))
    ELSE PR("Match", tls_version_name(B(data, 1), B(data, 2)))

\* ssh::detect, the two-valued SSH validator of src/protocols/ssh.rs.
ssh_detect(data) ==
    IF Len(data) < 4 \/ ~starts_with(data, <<83, 83, 72, 45>> (* b"SSH-" *)) THEN FALSE
    ELSE IF Len(data) >= 8
    THEN LET is_v2 == starts_with(data, <<83, 83, 72, 45, 50, 46, 48, 45>> (* b"SSH-2.0-" *))
                      \/ starts_with(data, <<83, 83, 72, 45, 49, 46, 57, 57, 45>> (* b"SSH-1.99-" *))
             is_v1 == starts_with(data, <<83, 83, 72, 45, 49, 46, 53, 45>> (* b"SSH-1.5-" *))
             limit == MinInt(Len(data), 64)
             \* the loop leaves at the first newline or the first bad byte
             stops == {i \in 4..(limit - 1) :
                         \/ B(data, i) = 10
                         \/ (B(data, i) # 13
                             /\ (B(data, i) < 32 \/ B(data, i) > 126))}
         IN  IF ~is_v2 /\ ~is_v1 THEN FALSE
             ELSE IF stops # {} /\ B(data, MinOf(stops)) # 10 THEN FALSE
             ELSE TRUE
    ELSE IF Len(data) >= 5 /\ B(data, 4) # 49 /\ B(data, 4) # 50 THEN FALSE
    ELSE TRUE

ssh_probe(data) ==
    IF ~starts_with(data, <<83, 83, 72, 45>> (* b"SSH-" *)) THEN PR("NoMatch", VUnknown)
    ELSE IF Len(data) < 8 THEN PR("Match", VUnknown)
    ELSE
    LET is_v2 == starts_with(data, <<83, 83, 72, 45, 50, 46, 48, 45>> (* b"SSH-2.0-" *))
                 \/ starts_with(data, <<83, 83, 72, 45, 49, 46, 57, 57, 45>> (* b"SSH-1.99-" *))
        is_v1 == starts_with(data, <<83, 83, 72, 45, 49, 46, 53, 45>> (* b"SSH-1.5-" *))
        limit == MinInt(Len(data), 64)
        stops == {i \in 4..(limit - 1) :
                    \/ B(data, i) = 10
                    \/ (B(data, i) # 13 /\ B(data, i) # 9
                        /\ (B(data, i) < 32 \/ B(data, i) > 126))}
        version == IF is_v2 THEN VSsh("2.0") ELSE VSsh("1.5")
    IN  IF ~is_v2 /\ ~is_v1 THEN PR("NoMatch", VUnknown)
        ELSE IF stops # {} /\ B(data, MinOf(stops)) # 10
        THEN PR("NoMatch", VUnknown)
        ELSE IF stops # {} \/ Len(data) >= 16 THEN PR("Match", version)
        ELSE PR("Incomplete", VUnknown)

\* ------------------------------------------------------------------------
\* redis::detect, the two-valued Redis validator of src/protocols/redis.rs
\* ------------------------------------------------------------------------

is_resp_prefix(b) ==
    b \in {43, 45, 58, 36, 42, 95, 44, 35, 33, 61, 40, 37, 126, 62}

is_printable_ascii(s) == \A i \in 1..Len(s) : s[i] >= 32 /\ s[i] <= 126

is_all_digits_or_minus(s) ==
    IF s = <<>> THEN FALSE
    ELSE \A i \in 1..Len(s) : (s[i] = 45 /\ i = 1) \/ is_ascii_digit(s[i])

\* The u32 accumulator of parse_u32 as two 16-bit halves; `some` is FALSE
\* once checked_mul or checked_add has overflowed.
RECURSIVE parse_u32_loop(_, _, _)
parse_u32_loop(s, i, res) ==
    IF i > Len(s) \/ ~res.some THEN res
    ELSE IF ~is_ascii_digit(s[i]) THEN [some |-> FALSE, hi |-> 0, lo |-> 0]
    ELSE LET lo == res.lo * 10 + (s[i] - 48)
             hi == res.hi * 10 + lo \div 65536
         IN  IF hi >= 65536 THEN [some |-> FALSE, hi |-> 0, lo |-> 0]
             ELSE parse_u32_loop(s, i + 1,
                                 [some |-> TRUE, hi |-> hi, lo |-> lo % 65536])

parse_u32(s) ==
    IF s = <<>> THEN [some |-> FALSE, hi |-> 0, lo |-> 0]
    ELSE parse_u32_loop(s, 1, [some |-> TRUE, hi |-> 0, lo |-> 0])

validate_resp(data) ==
    IF Len(data) < 3 THEN FALSE
    ELSE
    LET prefix  == B(data, 0)
        payload == Slice(data, 1, Len(data))
        nls     == {i \in 0..(Len(payload) - 1) : B(payload, i) = 10}
    IN  IF nls = {}
        THEN IF prefix \in {58, 36, 42} THEN is_all_digits_or_minus(payload)
             ELSE FALSE
        ELSE
        LET idx  == MinOf(nls)
            line == IF idx > 0 /\ B(payload, idx - 1) = 13
                    THEN Slice(payload, 0, idx - 1)
                    ELSE Slice(payload, 0, idx)
            after_term == Slice(payload, idx + 1, Len(payload))
            n    == parse_u32(line)
        IN  IF prefix \in {43, 45, 61, 40}
            THEN line # <<>> /\ is_printable_ascii(line)
            ELSE IF prefix = 58
            THEN line # <<>> /\ is_all_digits_or_minus(line)
            ELSE IF prefix = 35 THEN line = <<116>> (* b"t" *) \/ line = <<102>> (* b"f" *)
            ELSE IF prefix = 95 THEN line = <<>>
            ELSE IF prefix = 44 THEN line # <<>>
            ELSE IF prefix \in {36, 33}
            THEN IF line = <<45, 49>> (* b"-1" *) THEN TRUE ELSE n.some
            ELSE IF prefix \in {42, 37, 126, 62}
            THEN IF line = <<45, 49>> (* b"-1" *) THEN TRUE
                 ELSE IF ~n.some THEN FALSE
                 ELSE IF (n.hi > 0 \/ n.lo > 0) /\ after_term # <<>>
                 THEN is_resp_prefix(B(after_term, 0))
                 ELSE TRUE
            ELSE FALSE

redis_detect(data) ==
    IF data = <<>> THEN FALSE
    ELSE IF is_resp_prefix(B(data, 0)) THEN validate_resp(data)
    ELSE IF B(data, 0) = 80
    THEN \/ starts_with(data, <<80, 73, 78, 71, 13, 10>> (* b"PING\x0d\x0a" *)) \/ starts_with(data, <<80, 73, 78, 71, 10>> (* b"PING\x0a" *))
         \/ starts_with(data, <<80, 79, 78, 71, 13, 10>> (* b"PONG\x0d\x0a" *)) \/ starts_with(data, <<80, 79, 78, 71, 10>> (* b"PONG\x0a" *))
    ELSE IF B(data, 0) = 83
    THEN starts_with(data, <<83, 69, 84, 32>> (* b"SET " *)) \/ starts_with(data, <<83, 69, 76, 69, 67, 84, 32>> (* b"SELECT " *))
    ELSE IF B(data, 0) = 71
    THEN starts_with(data, <<71, 69, 84, 32>> (* b"GET " *)) /\ ~starts_with(data, <<71, 69, 84, 32, 47>> (* b"GET /" *))
    ELSE FALSE

Resp2Markers == {43, 45, 58, 36, 42}                \* + - : $ *

Resp3Markers == {95, 44, 35, 33, 61, 40, 37, 126, 62}  \* _ , # ! = ( % ~ >

redis_second_byte_ok(marker, b) ==
    IF marker \in {43, 45} THEN (b >= 32 /\ b <= 126) \/ b = 13
    ELSE IF marker \in {58, 36, 42, 40} THEN is_ascii_digit(b) \/ b = 45
    ELSE IF marker = 35 THEN b = 116 \/ b = 102
    ELSE IF marker = 95 THEN b = 13
    ELSE IF marker = 44
    THEN is_ascii_digit(b) \/ b = 43 \/ b = 45 \/ b = 105 \/ b = 110
    ELSE is_ascii_digit(b)

redis_probe(data) ==
    IF B(data, 0) \notin Resp2Markers \cup Resp3Markers
    THEN PR("NoMatch", VUnknown)
    ELSE IF Len(data) < 2 THEN PR("Incomplete", VUnknown)
    ELSE IF ~redis_second_byte_ok(B(data, 0), B(data, 1))
    THEN PR("NoMatch", VUnknown)
    ELSE IF B(data, 0) \in Resp2Markers THEN PR("Match", VRedis("2"))
    ELSE PR("Match", VRedis("3"))

\* ------------------------------------------------------------------------
\* Indexing of the inspected slice.  For each validator, the ranges
\* data[a..b] (a single index i is the range i..i+1) and the unsigned
\* intermediate values its code computes on the path taken for `data`.
\* A range panics when it is not within the slice, a value when it is
\* negative (unsigned underflow) or above the maximum of its type.
\* Rd reads a byte in deciding the path and is 0 outside the slice, where
\* the code has panicked already.
\* ------------------------------------------------------------------------

Rd(data, i) == IF i >= 0 /\ i < Len(data) THEN data[i + 1] ELSE 0

U16Max == 65535

\* The largest integer TLC holds.  u32::MAX and usize::MAX lie above it, so
\* a value of the model that is within IntMax overflows neither.
IntMax == 2147483647

RangePanics(data, ranges) ==
    \E r \in ranges : r[1] < 0 \/ r[1] > r[2] \/ r[2] > Len(data)

ValuePanics(values) ==
    \E v \in values : v[1] < 0 \/ v[1] > v[2]

NoAccess == [ranges |-> {}, values |-> {}]

\* is_command: data[len] after starts_with(cmd) and data.len() != len.
command_reads(data, cmd) ==
    IF starts_with(data, cmd) /\ Len(data) # Len(cmd)
    THEN {<<Len(cmd), Len(cmd) + 1>>}
    ELSE {}

\* validate_line: &data[..limit] with limit = data.len().min(64).
line_reads(data) == {<<0, MinInt(Len(data), 64)>>}

dhcp_access(data) ==
    IF Len(data) < 44 THEN NoAccess
    ELSE [ranges |-> {<<0, 1>>, <<1, 2>>, <<2, 3>>, <<3, 4>>, <<10, 11>>,
                      <<11, 12>>}
                     \cup (IF Rd(data, 1) \in {1, 6} THEN {<<34, 44>>} ELSE {})
                     \cup (IF Len(data) >= 240 THEN {<<236, 240>>} ELSE {}),
          values |-> {}]

\* validate_dns_header indexes header[2..=11] of a 12-byte sub-slice.
dns_access(data) ==
    IF Len(data) < 12 THEN NoAccess
    ELSE [ranges |-> {<<0, 12>>}
                     \cup (IF Len(data) >= 13
                           THEN {<<4, 5>>, <<5, 6>>, <<12, 13>>} ELSE {})
                     \cup (IF Len(data) >= 14
                           THEN {<<0, 1>>, <<1, 2>>, <<2, 14>>} ELSE {})
                     \cup (IF Len(data) >= 15
                           THEN {<<6, 7>>, <<7, 8>>, <<14, 15>>} ELSE {}),
          \* qdcount + ancount + nscount + arcount as u32
          values |-> {<<u16_be(Rd(data, 4), Rd(data, 5))
                        + u16_be(Rd(data, 6), Rd(data, 7))
                        + u16_be(Rd(data, 8), Rd(data, 9))
                        + u16_be(Rd(data, 10), Rd(data, 11)), IntMax>>}]

quic_access(data) ==
    IF Len(data) < 7 THEN NoAccess
    ELSE LET dcid_len == Rd(data, 5)
         IN  [ranges |-> {<<0, 1>>, <<1, 5>>, <<5, 6>>}
                         \cup (IF dcid_len <= 20 /\ ~(Len(data) <= 6 + dcid_len)
                               THEN {<<6 + dcid_len, 6 + dcid_len + 1>>}
                               ELSE {}),
              values |-> {<<6 + dcid_len, IntMax>>}]

\* mysql::detect reading the filler byte without `data.len() > idx + 13`
mysql_access_filler_unchecked(data) ==
    IF Len(data) < 10 THEN NoAccess
    ELSE LET search_limit == MinInt(Len(data), 48)
             stops == {i \in 5..(search_limit - 1) :
                         Rd(data, i) = 0 \/ Rd(data, i) < 32 \/ Rd(data, i) > 126}
         IN  [ranges |-> {<<0, 3>>, <<3, 4>>, <<4, 5>>, <<5, search_limit>>}
                         \cup (IF stops # {} /\ Rd(data, MinOf(stops)) = 0
                               THEN {<<MinOf(stops) + 13, MinOf(stops) + 14>>}
                               ELSE {}),
              values |-> IF stops # {} THEN {<<MinOf(stops) + 13, IntMax>>}
                         ELSE {}]

mysql_access(data) ==
    IF Len(data) < 10 THEN NoAccess
    ELSE LET search_limit == MinInt(Len(data), 48)
             stops == {i \in 5..(search_limit - 1) :
                         Rd(data, i) = 0 \/ Rd(data, i) < 32 \/ Rd(data, i) > 126}
         IN  [ranges |-> {<<0, 3>>, <<3, 4>>, <<4, 5>>, <<5, search_limit>>}
                         \cup (IF stops # {} /\ Rd(data, MinOf(stops)) = 0
                                  /\ Len(data) > MinOf(stops) + 13
                               THEN {<<MinOf(stops) + 13, MinOf(stops) + 14>>}
                               ELSE {}),
              values |-> IF stops # {} THEN {<<MinOf(stops) + 13, IntMax>>}
                         ELSE {}]

postgres_access(data) ==
    IF Len(data) < 8 THEN NoAccess
    ELSE [ranges |-> {<<0, 4>>, <<4, 8>>}
                     \cup (IF Len(data) >= 12
                           THEN {<<8, MinInt(Len(data), 64)>>} ELSE {}),
          values |-> {}]

\* The Remaining Length loop reads data[1..offset]; then data[offset],
\* data[offset + 1], &data[offset + 2..offset + 2 + name_len] and
\* data[offset + 2 + name_len].
mqtt_access(data) ==
    IF Len(data) < 12 THEN NoAccess
    ELSE LET r == mqtt_remaining_length(data, 1, 0, 1)
             offset == r.offset
             name_len == u16_be(Rd(data, offset), Rd(data, offset + 1))
             off2 == offset + 2
         IN  [ranges |-> {<<0, 1>>, <<1, offset>>}
                         \cup (IF r.found_len /\ ~(Len(data) < offset + 2)
                               THEN {<<offset, offset + 1>>,
                                     <<offset + 1, offset + 2>>}
                               ELSE {})
                         \cup (IF /\ r.found_len /\ ~(Len(data) < offset + 2)
                                  /\ ~(r.remaining_length < name_len + 6)
                                  /\ name_len \in {4, 6}
                                  /\ ~(Len(data) < off2 + name_len + 1)
                               THEN {<<off2, off2 + name_len>>,
                                     <<off2 + name_len, off2 + name_len + 1>>}
                               ELSE {}),
              \* remaining_length and multiplier (u32), the usize sums
              values |-> {<<r.remaining_length, IntMax>>,
                          <<name_len + 6, IntMax>>,
                          <<off2 + name_len + 1, IntMax>>}]

smtp_access(data) ==
    IF Len(data) < 5 THEN NoAccess
    ELSE [ranges |-> line_reads(data)
                     \cup UNION {command_reads(data, c) :
                                   c \in {<<69, 72, 76, 79>>, <<72, 69, 76, 79>>,
                                          <<68, 65, 84, 65>>, <<81, 85, 73, 84>>,
                                          <<83, 84, 65, 82, 84, 84, 76, 83>>,
                                          <<86, 82, 70, 89>>, <<69, 88, 80, 78>>}},
          values |-> {}]

pop3_access(data) ==
    IF Len(data) < 5 THEN NoAccess
    ELSE [ranges |-> line_reads(data)
                     \cup UNION {command_reads(data, c) :
                                   c \in {<<85, 83, 69, 82>>, <<80, 65, 83, 83>>,
                                          <<83, 84, 65, 84>>, <<76, 73, 83, 84>>,
                                          <<82, 69, 84, 82>>, <<81, 85, 73, 84>>,
                                          <<67, 65, 80, 65>>}},
          values |-> {}]

ftp_access(data) ==
    IF Len(data) < 5 THEN NoAccess
    ELSE [ranges |-> line_reads(data)
                     \cup UNION {command_reads(data, c) :
                                   c \in {<<85, 83, 69, 82>>, <<80, 65, 83, 83>>,
                                          <<65, 85, 84, 72>>, <<83, 89, 83, 84>>,
                                          <<70, 69, 65, 84>>, <<81, 85, 73, 84>>,
                                          <<80, 65, 83, 86>>, <<69, 80, 83, 86>>,
                                          <<84, 89, 80, 69>>, <<80, 87, 68>>}},
          values |-> {}]

\* &data[2..]; the tag loop reads data[0..=i] while i < data.len(); data[i]
\* after i + 1 < data.len(); the command loop reads data[cmd_start..=j]
\* while j < data.len(); &data[cmd_start..j]; cmd_len = j - cmd_start.
imap_access(data) ==
    IF Len(data) < 5 THEN NoAccess
    ELSE LET i == imap_tag_end(data)
             cmd_start == i + 1
             j == imap_cmd_end(data, cmd_start)
         IN  [ranges |-> line_reads(data)
                         \cup {<<2, Len(data)>>, <<0, MinInt(i + 1, Len(data))>>}
                         \cup (IF i > 0 /\ i + 1 < Len(data)
                               THEN {<<i, i + 1>>} ELSE {})
                         \cup (IF i > 0 /\ i + 1 < Len(data) /\ Rd(data, i) = 32
                               THEN {<<cmd_start, MinInt(j + 1, Len(data))>>,
                                     <<cmd_start, j>>}
                               ELSE {}),
              values |-> {<<i + 1, IntMax>>, <<cmd_start + 16, IntMax>>}
                         \cup (IF i > 0 /\ i + 1 < Len(data) /\ Rd(data, i) = 32
                               THEN {<<j - cmd_start, IntMax>>} ELSE {})]

\* validate_sip_line / validate_rtsp_line with a needle of n bytes: the
\* scan reads data[0..limit]; for a request &data[..end_of_line] and, when
\* line.len() > n, line.len() - n and &line[i..i + n] for i up to it.
request_line_access(data, is_response, n) ==
    LET limit == MinInt(Len(data), 64)
        end_of_line == request_line_end(data)
    IN  [ranges |-> {<<0, 1>>, <<0, limit>>}
                    \cup (IF ~is_response /\ end_of_line # -1
                          THEN {<<0, end_of_line>>}
                               \cup (IF end_of_line > n
                                     THEN {<<i, i + n>> : i \in 0..(end_of_line - n)}
                                     ELSE {})
                          ELSE {}),
         values |-> IF ~is_response /\ end_of_line # -1 /\ end_of_line > n
                    THEN {<<end_of_line - n, IntMax>>} ELSE {}]

sip_access(data) ==
    IF Len(data) < 12 THEN NoAccess
    ELSE request_line_access(data,
             starts_with(data, <<83, 73, 80, 47, 50, 46, 48, 32>>), 8)

rtsp_access(data) ==
    IF Len(data) < 14 THEN NoAccess
    ELSE request_line_access(data,
             \/ starts_with(data, <<82, 84, 83, 80, 47, 49, 46, 48, 32>>)
             \/ starts_with(data, <<82, 84, 83, 80, 47, 50, 46, 48, 32>>), 9)

smb_access(data) ==
    IF Len(data) < 4 THEN NoAccess
    ELSE [ranges |-> {<<0, 4>>}
                     \cup (IF Len(data) >= 8
                           THEN {<<0, 1>>, <<1, 4>>, <<4, 8>>} ELSE {}),
          values |-> {}]

stun_access(data) ==
    IF Len(data) < 20 THEN NoAccess
    ELSE [ranges |-> {<<4, 8>>, <<0, 1>>, <<2, 4>>}, values |-> {}]

ntp_access(data) ==
    IF Len(data) < 48 THEN NoAccess
    ELSE [ranges |-> {<<0, 1>>, <<1, 2>>, <<2, 3>>, <<3, 4>>, <<40, 48>>},
          values |-> {}]

\* tls::detect: the record header, the handshake header when visible, and
\* for SSLv2 data[0..11], the u16 record length, the u32 sum of the three
\* lengths and u32::from(record_length) - 9; the version is read from
\* bytes 9 and 10 of a ClientHello of 11 bytes or more.
tls_access(data) ==
    IF Len(data) < 5 THEN NoAccess
    ELSE IF Rd(data, 0) \div 128 # 0
    THEN IF Len(data) < 11 THEN [ranges |-> {<<0, 1>>}, values |-> {}]
         ELSE LET record_length == (Rd(data, 0) % 128) * 256 + Rd(data, 1)
              IN  [ranges |-> {<<0, 1>>, <<0, 11>>},
                   values |-> {<<record_length, U16Max>>,
                               <<u16_be(Rd(data, 5), Rd(data, 6))
                                 + u16_be(Rd(data, 7), Rd(data, 8))
                                 + u16_be(Rd(data, 9), Rd(data, 10)), IntMax>>}
                              \cup (IF ~(record_length < 9) /\ Rd(data, 2) = 1
                                    THEN {<<record_length - 9, IntMax>>}
                                    ELSE {})]
    ELSE [ranges |-> {<<0, 5>>}
                     \cup (IF ~(Len(data) < 6) THEN {<<5, 6>>} ELSE {})
                     \cup (IF Len(data) >= 9 THEN {<<6, 9>>} ELSE {})
                     \cup (IF Len(data) >= 10 THEN {<<9, 10>>} ELSE {})
                     \cup (IF Len(data) >= 11 THEN {<<9, 11>>} ELSE {}),
          values |-> {}]

\* http::detect: &data[..4], data[offset] of the request target when
\* data.len() > offset, the status-line bytes behind their length checks,
\* and the scan of the request line for its version.
http_access(data) ==
    IF Len(data) < 4 THEN NoAccess
    ELSE [ranges |-> {<<0, 4>>, <<0, Len(data)>>}
                     \cup UNION {IF starts_with(data, m) /\ ~(Len(data) <= Len(m))
                                 THEN {<<Len(m), Len(m) + 1>>} ELSE {} :
                                 m \in HttpMethods}
                     \cup (IF Len(data) >= 10 THEN {<<4, 9>>, <<9, 10>>} ELSE {})
                     \cup (IF Len(data) >= 8 THEN {<<4, 8>>} ELSE {}),
          values |-> {}]

\* ssh::detect: &data[4..limit] with limit = data.len().min(64) once 8
\* bytes are visible, data[4] once 5 are.
ssh_access(data) ==
    IF Len(data) < 4 THEN NoAccess
    ELSE [ranges |-> IF Len(data) >= 8 THEN {<<4, MinInt(Len(data), 64)>>}
                     ELSE IF Len(data) >= 5 THEN {<<4, 5>>}
                     ELSE {},
          values |-> {}]

\* The marker byte, and the second byte when it is visible.
redis_access(data) ==
    IF Len(data) < 1 THEN NoAccess
    ELSE [ranges |-> {<<0, 1>>}
                     \cup (IF Len(data) >= 2 THEN {<<1, 2>>} ELSE {}),
          values |-> {}]

validator_access(p, data) ==
    CASE p = "Http" -> http_access(data)
      [] p = "Tls" -> tls_access(data)
      [] p = "Ssh" -> ssh_access(data)
      [] p = "Redis" -> redis_access(data)
      [] p = "Dns" -> dns_access(data)
      [] p = "Quic" -> quic_access(data)
      [] p = "Mysql" -> mysql_access(data)
      [] p = "Postgres" -> postgres_access(data)
      [] p = "Mqtt" -> mqtt_access(data)
      [] p = "Smtp" -> smtp_access(data)
      [] p = "Pop3" -> pop3_access(data)
      [] p = "Imap" -> imap_access(data)
      [] p = "Ftp" -> ftp_access(data)
      [] p = "Smb" -> smb_access(data)
      [] p = "Stun" -> stun_access(data)
      [] p = "Sip" -> sip_access(data)
      [] p = "Rtsp" -> rtsp_access(data)
      [] p = "Dhcp" -> dhcp_access(data)
      [] p = "Ntp" -> ntp_access(data)

\* The validator of p panics on data.
validator_panics(p, data) ==
    \/ RangePanics(data, validator_access(p, data).ranges)
    \/ ValuePanics(validator_access(p, data).values)

\* ------------------------------------------------------------------------
\* Protocol::probe_info, Protocol::probe, Protocol::detect (src/lib.rs)
\* ------------------------------------------------------------------------

validator(p, data) ==
    CASE p = "Http" -> http_probe(data)
      [] p = "Tls" -> tls_probe(data)
      [] p = "Ssh" -> ssh_probe(data)
      [] p = "Redis" -> redis_probe(data)
      [] p = "Dns" -> PR(bool_to_status(dns_detect(data)), VUnknown)
      [] p = "Quic" -> PR(bool_to_status(quic_detect(data)), VUnknown)
      [] p = "Mysql" -> PR(bool_to_status(mysql_detect(data)), VUnknown)
      [] p = "Postgres" -> PR(bool_to_status(postgres_detect(data)), VUnknown)
      [] p = "Mqtt" -> PR(bool_to_status(mqtt_detect(data)), VUnknown)
      [] p = "Smtp" -> PR(bool_to_status(smtp_detect(data)), VUnknown)
      [] p = "Pop3" -> PR(bool_to_status(pop3_detect(data)), VUnknown)
      [] p = "Imap" -> PR(bool_to_status(imap_detect(data)), VUnknown)
      [] p = "Ftp" -> PR(bool_to_status(ftp_detect(data)), VUnknown)
      [] p = "Smb" -> PR(bool_to_status(smb_detect(data)), VUnknown)
      [] p = "Stun" -> PR(bool_to_status(stun_detect(data)), VUnknown)
      [] p = "Sip" -> PR(bool_to_status(sip_detect(data)), VUnknown)
      [] p = "Rtsp" -> PR(bool_to_status(rtsp_detect(data)), VUnknown)
      [] p = "Dhcp" -> PR(bool_to_status(dhcp_detect(data)), VUnknown)
      [] p = "Ntp" -> PR(bool_to_status(ntp_detect(data)), VUnknown)

\* probe_info answering NoMatch, not Incomplete, for data below the minimum.
probe_info_call_short_is_nomatch(p, data) ==
    IF Len(data) < min_bytes(p)
    THEN [r |-> PR("NoMatch", VUnknown), validated |-> FALSE]
    ELSE IF validator_panics(p, data)
    THEN [r |-> PR("Panic", VUnknown), validated |-> TRUE]
    ELSE [r |-> validator(p, data), validated |-> TRUE]

\* Protocol::probe_info, with a record of whether the call went past the
\* length check into the protocol's validator.  A validator that indexes
\* outside the slice or overflows unwinds: the answer is the status Panic.
probe_info_call(p, data) ==
    IF Len(data) < min_bytes(p)
    THEN [r |-> PR("Incomplete", VUnknown), validated |-> FALSE]
    ELSE IF validator_panics(p, data)
    THEN [r |-> PR("Panic", VUnknown), validated |-> TRUE]
    ELSE [r |-> validator(p, data), validated |-> TRUE]

probe_info(p, data) == probe_info_call(p, data).r

probe(p, data) == probe_info(p, data).status

\* Result<bool, DetectionError>
OkBool(b) == [tag |-> "Ok", value |-> b]

ErrBool == [tag |-> "Err", value |-> FALSE]

\* Protocol::detect: Ok(matches!(self.probe(data), Match)), never an error.
protocol_detect(p, data) ==
    IF probe(p, data) = "Panic" THEN [tag |-> "Panic", value |-> FALSE]
    ELSE OkBool(probe(p, data) = "Match")

\* ------------------------------------------------------------------------
\* Detection engine (src/detector.rs)
\* ------------------------------------------------------------------------

\* Option<T>: None is the empty tuple, Some(x) the one-element tuple.
None == <<>>

Some(x) == <<x>>

TransportUnknown == "Unknown"

TransportTcp == "Tcp"

TransportUdp == "Udp"

\* ProtocolVersionSet::default()
NoExpectedVersions == [http |-> None, tls |-> None, ssh |-> None, redis |-> None]

\* DetectionResult<Option<ProtocolInfo>>
OkSome(p, version) == [tag |-> "Ok", protocol |-> Some(p), version |-> version]

OkNone == [tag |-> "Ok", protocol |-> None, version |-> VUnknown]

ErrInsufficientData == [tag |-> "Err", protocol |-> None, version |-> VUnknown]

\* The call unwound: a validator or the engine indexed outside its slice or
\* overflowed.
Panicked == [tag |-> "Panic", protocol |-> None, version |-> VUnknown]

\* The version comparison answering NoMatch with the validator's version.
version_filter_keeps_version(expected_versions, protocol, r) ==
    LET expected ==
            IF protocol = "Http" /\ r.version.variant = "Http"
            THEN expected_versions.http
            ELSE IF protocol = "Tls" /\ r.version.variant = "Tls"
            THEN expected_versions.tls
            ELSE IF protocol = "Ssh" /\ r.version.variant = "Ssh"
            THEN expected_versions.ssh
            ELSE IF protocol = "Redis" /\ r.version.variant = "Redis"
            THEN expected_versions.redis
            ELSE None
    IN  IF r.status = "Match" /\ expected # None /\ r.version.v # expected[1]
        THEN PR("NoMatch", r.version)
        ELSE r

\* The version comparison check_protocol applies to the validator's answer r.
version_filter(expected_versions, protocol, r) ==
    LET expected ==
            IF protocol = "Http" /\ r.version.variant = "Http"
            THEN expected_versions.http
            ELSE IF protocol = "Tls" /\ r.version.variant = "Tls"
            THEN expected_versions.tls
            ELSE IF protocol = "Ssh" /\ r.version.variant = "Ssh"
            THEN expected_versions.ssh
            ELSE IF protocol = "Redis" /\ r.version.variant = "Redis"
            THEN expected_versions.redis
            ELSE None
    IN  IF r.status = "Match" /\ expected # None /\ r.version.v # expected[1]
        THEN PR("NoMatch", VUnknown)
        ELSE r

check_protocol(expected_versions, protocol, data) ==
    version_filter(expected_versions, protocol, probe_info(protocol, data))

\* The default order with the HTTP block placed before the TLS block.
DefaultOrder_http_before_tls ==
    <<"Ssh", "Sip", "Rtsp", "Imap", "Http", "Tls", "Dns", "Smtp", "Ftp",
      "Dhcp", "Ntp", "Quic", "Mysql", "Postgres", "Redis", "Mqtt", "Pop3",
      "Smb", "Stun">>

\* The order in which the default detection logic visits the `enabled`
\* flags (the sequence of `if self.enabled.x` blocks).
DefaultOrder ==
    <<"Ssh", "Sip", "Rtsp", "Imap", "Tls", "Http", "Dns", "Smtp", "Ftp",
      "Dhcp", "Ntp", "Quic", "Mysql", "Postgres", "Redis", "Mqtt", "Pop3",
      "Smb", "Stun">>

\* detect_loop visiting `order` from its last entry to its first.
RECURSIVE detect_loop_reversed(_, _, _, _, _, _, _)
detect_loop_reversed(det, order, gated, i, data, any_incomplete, probed) ==
    IF i > Len(order)
    THEN [result |-> IF any_incomplete THEN ErrInsufficientData ELSE OkNone,
          probed |-> probed]
    ELSE LET p == order[Len(order) + 1 - i]
         IN  IF gated /\ p \notin det.enabled
             THEN detect_loop_reversed(det, order, gated, i + 1, data,
                                       any_incomplete, probed)
             ELSE LET r == check_protocol(det.expected_versions, p, data)
                      t == Append(probed, <<p, r.status>>)
                  IN  IF r.status = "Match"
                      THEN [result |-> OkSome(p, r.version), probed |-> t]
                      ELSE detect_loop_reversed(det, order, gated, i + 1,
                               data, any_incomplete \/ r.status = "Incomplete",
                               t)

\* detect_loop returning the InsufficientData error at the first Incomplete.
RECURSIVE detect_loop_stop_early(_, _, _, _, _, _, _)
detect_loop_stop_early(det, order, gated, i, data, any_incomplete, probed) ==
    IF i > Len(order)
    THEN [result |-> IF any_incomplete THEN ErrInsufficientData ELSE OkNone,
          probed |-> probed]
    ELSE IF gated /\ order[i] \notin det.enabled
    THEN detect_loop_stop_early(det, order, gated, i + 1, data,
                                any_incomplete, probed)
    ELSE LET r == check_protocol(det.expected_versions, order[i], data)
             t == Append(probed, <<order[i], r.status>>)
         IN  IF r.status = "Match"
             THEN [result |-> OkSome(order[i], r.version), probed |-> t]
             ELSE IF r.status = "Incomplete"
             THEN [result |-> ErrInsufficientData, probed |-> t]
             ELSE detect_loop_stop_early(det, order, gated, i + 1, data,
                                         any_incomplete, t)

\* One pass over `order` from position i.  `gated` is TRUE for the default
\* logic, where a protocol is checked only if its enabled flag is set, and
\* FALSE for the priority-order loop.  `probed` records the protocols
\* handed to check_protocol, with the status each returned.
RECURSIVE detect_loop(_, _, _, _, _, _, _)
RECURSIVE after_check(_, _, _, _, _, _, _, _)
\* The part of an iteration that follows check_protocol's answer r.
\* after_check with `any_incomplete = !any_incomplete` in the Incomplete arm
after_check_toggles_flag(det, order, gated, i, data, any_incomplete, probed, r) ==
    IF r.status = "Panic"
    THEN [result |-> Panicked,
          probed |-> Append(probed, <<order[i], r.status>>)]
    ELSE IF r.status = "Match"
    THEN [result |-> OkSome(order[i], r.version),
          probed |-> Append(probed, <<order[i], r.status>>)]
    ELSE detect_loop(det, order, gated, i + 1, data,
                     any_incomplete # (r.status = "Incomplete"),
                     Append(probed, <<order[i], r.status>>))

after_check(det, order, gated, i, data, any_incomplete, probed, r) ==
    IF r.status = "Panic"
    THEN [result |-> Panicked,
          probed |-> Append(probed, <<order[i], r.status>>)]
    ELSE IF r.status = "Match"
    THEN [result |-> OkSome(order[i], r.version),
          probed |-> Append(probed, <<order[i], r.status>>)]
    ELSE detect_loop(det, order, gated, i + 1, data,
                     any_incomplete \/ r.status = "Incomplete",
                     Append(probed, <<order[i], r.status>>))

\* The loop of detect_info visiting the default order without looking at
\* the enabled flags.
detect_loop_ungated(det, order, gated, i, data, any_incomplete, probed) ==
    IF i > Len(order)
    THEN [result |-> IF any_incomplete THEN ErrInsufficientData ELSE OkNone,
          probed |-> probed]
    ELSE after_check(det, order, FALSE, i, data, any_incomplete, probed,
                     check_protocol(det.expected_versions, order[i], data))

detect_loop(det, order, gated, i, data, any_incomplete, probed) ==
    IF i > Len(order)
    THEN [result |-> IF any_incomplete THEN ErrInsufficientData ELSE OkNone,
          probed |-> probed]
    ELSE IF gated /\ order[i] \notin det.enabled
    THEN detect_loop(det, order, gated, i + 1, data, any_incomplete, probed)
    ELSE after_check(det, order, gated, i, data, any_incomplete, probed,
                     check_protocol(det.expected_versions, order[i], data))

\* detect_info handing the validators the whole slice.
detect_info_untruncated(det, data) ==
    detect_loop(det,
                IF det.priority_order # None THEN det.priority_order[1]
                ELSE DefaultOrder,
                det.priority_order = None, 1, data, FALSE, <<>>)
        @@ [window |-> data]

\* ProtocolDetector::detect_info; also reports the window the validators
\* saw.  With a priority order the loop runs over it, ungated; without one
\* it runs over the default order, gated by the enabled flags.
detect_info(det, data) ==
    LET limit == MinInt(Len(data), det.max_inspect_bytes)
        window == Slice(data, 0, limit)
    IN  IF RangePanics(data, {<<0, limit>>})
        THEN [result |-> Panicked, probed |-> <<>>, window |-> <<>>]
        ELSE detect_loop(det,
                    IF det.priority_order # None THEN det.priority_order[1]
                    ELSE DefaultOrder,
                    det.priority_order = None, 1, window, FALSE, <<>>)
            @@ [window |-> window]

\* ProtocolDetector::detect: the protocol without the version.
detect(det, data) ==
    LET r == detect_info(det, data).result
    IN  [tag |-> r.tag, protocol |-> r.protocol]

\* ProtocolDetector::with_order
with_order(order, max_inspect_bytes) ==
    [enabled |-> {order[i] : i \in 1..Len(order)},
     priority_order |-> Some(order),
     max_inspect_bytes |-> max_inspect_bytes,
     expected_versions |-> NoExpectedVersions,
     transport |-> TransportUnknown]

\* ------------------------------------------------------------------------
\* Inputs
\* ------------------------------------------------------------------------

Samples ==
    \* 1 http_get: b"GET / HTTP/1.1\x0d\x0a" (lib.rs:326)
    << <<71, 69, 84, 32, 47, 32, 72, 84, 84, 80, 47, 49, 46, 49, 13, 10>>,
    \* 2 http_get_padded: the same request followed by 56 zero bytes (detector.rs:634)
       <<71, 69, 84, 32, 47, 32, 72, 84, 84, 80, 47, 49, 46, 49, 13, 10, 0, 0, 0, 0, 0, 0, 0, 0, 0, 0, 0, 0, 0, 0, 0, 0, 0, 0, 0, 0, 0, 0, 0, 0, 0, 0, 0, 0, 0, 0, 0, 0, 0, 0, 0, 0, 0, 0, 0, 0, 0, 0, 0, 0, 0, 0, 0, 0, 0, 0, 0, 0, 0, 0, 0, 0>>,
    \* 3 http_get_noversion: b"GET /index.html": a request line whose version is not yet visible
       <<71, 69, 84, 32, 47, 105, 110, 100, 101, 120, 46, 104, 116, 109, 108>>,
    \* 4 http_get_10: b"GET /a HTTP/1.0\x0d\x0a"
       <<71, 69, 84, 32, 47, 97, 32, 72, 84, 84, 80, 47, 49, 46, 48, 13, 10>>,
    \* 5 http_response: b"HTTP/1.1 200 OK\x0d\x0a" (http.rs:144)
       <<72, 84, 84, 80, 47, 49, 46, 49, 32, 50, 48, 48, 32, 79, 75, 13, 10>>,
    \* 6 tls_short_hello: record 0x0301, ClientHello body length 1, legacy version 0x0303 (lib.rs:429)
       <<22, 3, 1, 0, 5, 1, 0, 0, 1, 3, 3>>,
    \* 7 tls_client_hello: record 0x0301, ClientHello body length 88, legacy version 0x0303 (tls.rs:195)
       <<22, 3, 1, 0, 92, 1, 0, 0, 88, 3, 3, 170, 187, 204, 221, 238>>,
    \* 8 tls_appdata: application data record, version 0x0303
       <<23, 3, 3, 0, 32, 1, 2, 3>>,
    \* 9 ssh_banner: b"SSH-2.0-OpenSSH_8.9\x0d\x0a" (lib.rs:412)
       <<83, 83, 72, 45, 50, 46, 48, 45, 79, 112, 101, 110, 83, 83, 72, 95, 56, 46, 57, 13, 10>>,
    \* 10 ssh_199: b"SSH-1.99-OpenSSH_3\x0a"
       <<83, 83, 72, 45, 49, 46, 57, 57, 45, 79, 112, 101, 110, 83, 83, 72, 95, 51, 10>>,
    \* 11 redis_ping: b"*1\x0d\x0a$4\x0d\x0aPING\x0d\x0a" (chain.rs:308)
       <<42, 49, 13, 10, 36, 52, 13, 10, 80, 73, 78, 71, 13, 10>>,
    \* 12 redis_bool: b"#t\x0d\x0a": a RESP3 boolean
       <<35, 116, 13, 10>>,
    \* 13 dns_udp_query: UDP DNS query for google.com
       <<18, 52, 1, 0, 0, 1, 0, 0, 0, 0, 0, 0, 6, 103, 111, 111, 103, 108, 101, 3, 99, 111, 109, 0, 0, 1, 0, 1>>,
    \* 14 dns_tcp_query: the same query behind a 2-byte TCP length prefix (dns.rs:138)
       <<0, 28, 18, 52, 1, 0, 0, 1, 0, 0, 0, 0, 0, 0, 6, 103, 111, 111, 103, 108, 101>>,
    \* 15 mqtt_connect: MQTT 3.1.1 CONNECT
       <<16, 12, 0, 4, 77, 81, 84, 84, 4, 2, 0, 60>>,
    \* 16 zeros: 64 zero bytes
       <<0, 0, 0, 0, 0, 0, 0, 0, 0, 0, 0, 0, 0, 0, 0, 0, 0, 0, 0, 0, 0, 0, 0, 0, 0, 0, 0, 0, 0, 0, 0, 0, 0, 0, 0, 0, 0, 0, 0, 0, 0, 0, 0, 0, 0, 0, 0, 0, 0, 0, 0, 0, 0, 0, 0, 0, 0, 0, 0, 0, 0, 0, 0, 0>>,
    \* 17 pattern_42: 70 bytes of 0x42 (detector.rs:671)
       <<66, 66, 66, 66, 66, 66, 66, 66, 66, 66, 66, 66, 66, 66, 66, 66, 66, 66, 66, 66, 66, 66, 66, 66, 66, 66, 66, 66, 66, 66, 66, 66, 66, 66, 66, 66, 66, 66, 66, 66, 66, 66, 66, 66, 66, 66, 66, 66, 66, 66, 66, 66, 66, 66, 66, 66, 66, 66, 66, 66, 66, 66, 66, 66, 66, 66, 66, 66, 66, 66>>,
    \* 18 ff_garbage: b"\xff\xff\xff\xff\xff" (lib.rs:388)
       <<255, 255, 255, 255, 255>>,
    \* 19 ok_crlf: b"+OK\x0d\x0a"
       <<43, 79, 75, 13, 10>>,
    \* 20 pop3_greeting: b"+OK POP3 server ready\x0d\x0a"
       <<43, 79, 75, 32, 80, 79, 80, 51, 32, 115, 101, 114, 118, 101, 114, 32, 114, 101, 97, 100, 121, 13, 10>>,
    \* 21 smtp_greeting: b"220 mail.example.com ESMTP\x0d\x0a"
       <<50, 50, 48, 32, 109, 97, 105, 108, 46, 101, 120, 97, 109, 112, 108, 101, 46, 99, 111, 109, 32, 69, 83, 77, 84, 80, 13, 10>>,
    \* 22 ftp_user: b"USER anonymous\x0d\x0a"
       <<85, 83, 69, 82, 32, 97, 110, 111, 110, 121, 109, 111, 117, 115, 13, 10>>,
    \* 23 imap_greeting: b"* OK IMAP4rev1 ready\x0d\x0a"
       <<42, 32, 79, 75, 32, 73, 77, 65, 80, 52, 114, 101, 118, 49, 32, 114, 101, 97, 100, 121, 13, 10>>,
    \* 24 sip_options: b"OPTIONS sip:a@b.c SIP/2.0\x0d\x0a"
       <<79, 80, 84, 73, 79, 78, 83, 32, 115, 105, 112, 58, 97, 64, 98, 46, 99, 32, 83, 73, 80, 47, 50, 46, 48, 13, 10>>,
    \* 25 rtsp_options: b"OPTIONS rtsp://h/ RTSP/1.0\x0d\x0a"
       <<79, 80, 84, 73, 79, 78, 83, 32, 114, 116, 115, 112, 58, 47, 47, 104, 47, 32, 82, 84, 83, 80, 47, 49, 46, 48, 13, 10>>,
    \* 26 stun_binding: STUN binding request (stun.rs:43)
       <<0, 1, 0, 0, 33, 18, 164, 66, 1, 2, 3, 4, 5, 6, 7, 8, 9, 10, 11, 12>>,
    \* 27 ntp_client: NTP v3 client request, non-zero transmit timestamp
       <<27, 0, 6, 236, 0, 0, 0, 0, 0, 0, 0, 0, 0, 0, 0, 0, 0, 0, 0, 0, 0, 0, 0, 0, 0, 0, 0, 0, 0, 0, 0, 0, 0, 0, 0, 0, 0, 0, 0, 0, 227, 42, 145, 5, 0, 0, 0, 1>>,
    \* 28 dhcp_discover: DHCP discover, Ethernet, broadcast flag (dhcp.rs:78)
       <<1, 1, 6, 0, 57, 3, 243, 38, 0, 0, 128, 0, 0, 0, 0, 0, 0, 0, 0, 0, 0, 0, 0, 0, 0, 0, 0, 0, 222, 173, 190, 239, 0, 1, 0, 0, 0, 0, 0, 0, 0, 0, 0, 0>>,
    \* 29 quic_initial: QUIC v1 Initial, 8-byte DCID (quic.rs:90)
       <<192, 0, 0, 0, 1, 8, 17, 18, 19, 20, 21, 22, 23, 24, 0, 68, 85>>,
    \* 30 mysql_handshake: MySQL initial handshake, server version 8.0.21
       <<74, 0, 0, 0, 10, 56, 46, 48, 46, 50, 49, 0, 1, 0, 0, 0, 97, 98, 99, 100, 101, 102, 103, 104, 0, 255, 247>>,
    \* 31 postgres_ssl: PostgreSQL SSLRequest (postgres.rs:55)
       <<0, 0, 0, 8, 4, 210, 22, 47>>,
    \* 32 smb2_raw: raw SMB2 magic
       <<254, 83, 77, 66, 64, 0, 0, 0>> >>

SampleIds == 1..Len(Samples)

\* Byte slices handed to detect_info: every sample in full, the empty slice,
\* a single `G`, and a 9-byte greeting prefix without line terminator.
Inputs ==
    {Samples[s] : s \in SampleIds}
        \cup {<<>>, <<71>>, <<50, 50, 48, 32, 109, 97, 105, 108, 46>>}

\* ------------------------------------------------------------------------
\* State
\* ------------------------------------------------------------------------

VARIABLES
    phase,              \* "builder" | "chain" | "detector" | "called" | "stream"
    enabled,            \* ProtocolSet: the protocols whose flag is set
    order,              \* ProtocolChainBuilder.order
    priority_order,     \* ProtocolDetector.priority_order (None | Some(seq))
    max_inspect_bytes,
    expected_versions,  \* ProtocolVersionSet
    transport,          \* the PhantomData<Transport> marker
    calls,              \* configuration calls made so far
    op,                 \* the operation that produced this state
    data,               \* the byte slice of the last call / received so far
    result,             \* result of the last detect_info
    probed,             \* <<protocol, status>> per check_protocol call of it
    window,             \* the slice the validators were handed
    stream,             \* stream spec: which sample the peer is sending
    proto,              \* stream spec: the Protocol value being asked
    status,             \* result of the last Protocol::probe_info
    validated,          \* whether that call reached the validator
    single,             \* result of the last Protocol::detect
    threads             \* locals of each concurrent detect_info call

vars ==
    <<phase, enabled, order, priority_order, max_inspect_bytes,
      expected_versions, transport, calls, op, data, result, probed, window,
      stream, proto, status, validated, single, threads>>

config_vars ==
    <<enabled, order, priority_order, max_inspect_bytes, expected_versions,
      transport>>

call_vars == <<data, result, probed, window, threads>>

stream_vars == <<stream, proto, status, validated, single>>

\* Values of fields before the first call that sets them.
NoResult == [tag |-> "None", protocol |-> None, version |-> VUnknown]

NoStatus == PR("None", VUnknown)

NoSingle == [tag |-> "None", value |-> FALSE]

\* The detector the current state holds.
Det ==
    [enabled |-> enabled,
     priority_order |-> priority_order,
     max_inspect_bytes |-> max_inspect_bytes,
     expected_versions |-> expected_versions,
     transport |-> transport]

\* ------------------------------------------------------------------------
\* Bounds
\* ------------------------------------------------------------------------

MaxBuilderCalls == 2

MaxChainCalls == 1

\* Callers that share one detector.
NumThreads == 2

Threads == 1..NumThreads

\* A caller that has not called detect_info.
IdleThread ==
    [pc |-> "idle", data |-> <<>>, window |-> <<>>, i |-> 0,
     any_incomplete |-> FALSE, result |-> NoResult]

\* ------------------------------------------------------------------------
\* ProtocolDetectorBuilder (src/builder.rs)
\* ------------------------------------------------------------------------

\* ProtocolDetectorBuilder::new()
InitBuilder ==
    /\ phase = "builder"
    /\ enabled = {}
    /\ order = <<>>
    /\ priority_order = None
    /\ max_inspect_bytes = MAX_INSPECT_BYTES
    /\ expected_versions = NoExpectedVersions
    /\ transport = TransportUnknown
    /\ calls = 0
    /\ op = "new"
    /\ data = <<>>
    /\ result = NoResult
    /\ probed = <<>>
    /\ window = <<>>
    /\ stream = 1
    /\ proto = "Http"
    /\ status = NoStatus
    /\ validated = FALSE
    /\ single = NoSingle
    /\ threads = [t \in Threads |-> IdleThread]

BuilderCall ==
    /\ phase = "builder"
    /\ calls < MaxBuilderCalls
    /\ calls' = calls + 1
    /\ op' = "config"
    /\ UNCHANGED <<phase, order, priority_order, max_inspect_bytes>>
    /\ UNCHANGED call_vars
    /\ UNCHANGED stream_vars

AllTcpProtocols ==
    {"Http", "Tls", "Ssh", "Mysql", "Postgres", "Redis", "Mqtt", "Smtp",
     "Pop3", "Imap", "Ftp", "Smb", "Sip", "Rtsp"}

\* the nineteen single-protocol enable methods: http(), tls(), ... ntp()
BuilderEnable(p) ==
    /\ BuilderCall
    /\ enabled' = enabled \cup {p}
    /\ UNCHANGED <<expected_versions, transport>>

BuilderAll ==
    /\ BuilderCall
    /\ enabled' = enabled \cup Protocol
    /\ UNCHANGED <<expected_versions, transport>>

BuilderAllTcp ==
    /\ BuilderCall
    /\ enabled' = enabled \cup AllTcpProtocols
    /\ UNCHANGED <<expected_versions, transport>>

BuilderHttpVersion(v) ==
    /\ BuilderCall
    /\ enabled' = enabled \cup {"Http"}
    /\ expected_versions' = [expected_versions EXCEPT !.http = Some(v)]
    /\ UNCHANGED transport

BuilderRedisVersion(v) ==
    /\ BuilderCall
    /\ enabled' = enabled \cup {"Redis"}
    /\ expected_versions' = [expected_versions EXCEPT !.redis = Some(v)]
    /\ UNCHANGED transport

BuilderTlsVersion(v) ==
    /\ BuilderCall
    /\ enabled' = enabled \cup {"Tls"}
    /\ expected_versions' = [expected_versions EXCEPT !.tls = Some(v)]
    /\ UNCHANGED transport

BuilderSshVersion(v) ==
    /\ BuilderCall
    /\ enabled' = enabled \cup {"Ssh"}
    /\ expected_versions' = [expected_versions EXCEPT !.ssh = Some(v)]
    /\ UNCHANGED transport

BuilderTcp ==
    /\ BuilderCall
    /\ transport' = TransportTcp
    /\ UNCHANGED <<enabled, expected_versions>>

BuilderUdp ==
    /\ BuilderCall
    /\ transport' = TransportUdp
    /\ UNCHANGED <<enabled, expected_versions>>

BuilderBuild ==
    /\ phase = "builder"
    /\ phase' = "detector"
    /\ priority_order' = None
    /\ op' = "build"
    /\ UNCHANGED <<enabled, order, max_inspect_bytes, expected_versions,
                   transport, calls>>
    /\ UNCHANGED call_vars
    /\ UNCHANGED stream_vars

\* ------------------------------------------------------------------------
\* ProtocolChainBuilder (src/chain.rs)
\* ------------------------------------------------------------------------

\* Slices handed to from_slice.
SliceChoices ==
    {<<"Redis", "Pop3">>, <<"Pop3", "Redis">>, <<"Smtp", "Ftp">>,
     <<"Ftp", "Smtp">>, <<"Ntp", "Http">>, <<"Http", "Http">>,
     <<"Imap">>, <<"Sip", "Rtsp", "Sip">>}

\* Arguments handed to max_inspect_bytes(); IntMax stands for usize::MAX.
InspectChoices == {0, 8, 128, IntMax}

\* ProtocolChainBuilder::new() or ProtocolChainBuilder::from_slice(s)
InitChain ==
    /\ phase = "chain"
    /\ enabled = {}
    /\ order \in {<<>>} \cup SliceChoices
    /\ priority_order = None
    /\ max_inspect_bytes = MAX_INSPECT_BYTES
    /\ expected_versions = NoExpectedVersions
    /\ transport = TransportUnknown
    /\ calls = 0
    /\ op = "new"
    /\ data = <<>>
    /\ result = NoResult
    /\ probed = <<>>
    /\ window = <<>>
    /\ stream = 1
    /\ proto = "Http"
    /\ status = NoStatus
    /\ validated = FALSE
    /\ single = NoSingle
    /\ threads = [t \in Threads |-> IdleThread]

ChainCall ==
    /\ phase = "chain"
    /\ calls < MaxChainCalls
    /\ calls' = calls + 1
    /\ op' = "config"
    /\ UNCHANGED <<phase, enabled, priority_order, expected_versions,
                   transport>>
    /\ UNCHANGED call_vars
    /\ UNCHANGED stream_vars

ChainMaxInspectBytes(bytes) ==
    /\ ChainCall
    /\ max_inspect_bytes' = bytes
    /\ UNCHANGED order

\* the protocols that have a push method of their own
ChainPushable ==
    {"Http", "Tls", "Ssh", "Dns", "Quic", "Mysql", "Postgres", "Redis",
     "Mqtt"}

ChainPush(p) ==
    /\ ChainCall
    /\ order' = Append(order, p)
    /\ UNCHANGED max_inspect_bytes

ChainAllTcp ==
    /\ ChainCall
    /\ order' = order \o <<"Ssh", "Tls", "Http", "Redis", "Mysql",
                           "Postgres", "Mqtt", "Smtp", "Pop3", "Imap",
                           "Ftp", "Smb", "Sip", "Rtsp">>
    /\ UNCHANGED max_inspect_bytes

ChainAllUdp ==
    /\ ChainCall
    /\ order' = order \o <<"Dns", "Quic", "Dhcp", "Ntp", "Stun", "Sip",
                           "Rtsp">>
    /\ UNCHANGED max_inspect_bytes

ChainAllDb ==
    /\ ChainCall
    /\ order' = order \o <<"Redis", "Mysql", "Postgres">>
    /\ UNCHANGED max_inspect_bytes

ChainAllWeb ==
    /\ ChainCall
    /\ order' = order \o <<"Http", "Tls", "Quic">>
    /\ UNCHANGED max_inspect_bytes

ChainBuild ==
    /\ phase = "chain"
    /\ phase' = "detector"
    /\ LET det == with_order(order, max_inspect_bytes)
       IN  /\ enabled' = det.enabled
           /\ priority_order' = det.priority_order
           /\ max_inspect_bytes' = det.max_inspect_bytes
           /\ expected_versions' = det.expected_versions
           /\ transport' = det.transport
    /\ op' = "build"
    /\ UNCHANGED <<order, calls>>
    /\ UNCHANGED call_vars
    /\ UNCHANGED stream_vars

\* ------------------------------------------------------------------------
\* Detection calls
\* ------------------------------------------------------------------------

\* What a detect_info call leaves for the properties to look at.
Returned(r) ==
    /\ result' = r.result
    /\ probed' = r.probed
    /\ window' = r.window

\* detector.detect_info(d); detector.detect(d) is its result without the
\* version.  The call takes &self and leaves the detector as it was, so a
\* behaviour follows one call per built detector.
DetectInfo(d) ==
    /\ phase = "detector"
    /\ phase' = "called"
    /\ Returned(detect_info(Det, d))
    /\ data' = d
    /\ op' = "detect_info"
    /\ UNCHANGED <<calls, threads>>
    /\ UNCHANGED config_vars
    /\ UNCHANGED stream_vars

\* ------------------------------------------------------------------------
\* A caller reading a stream and asking one Protocol value about it
\* ------------------------------------------------------------------------

\* The peer sends Samples[stream]; the caller holds the bytes read so far.
InitStream ==
    /\ phase = "stream"
    /\ enabled = {}
    /\ order = <<>>
    /\ priority_order = None
    /\ max_inspect_bytes = MAX_INSPECT_BYTES
    /\ expected_versions = NoExpectedVersions
    /\ transport = TransportUnknown
    /\ calls = 0
    /\ op = "new"
    /\ data = <<>>
    /\ result = NoResult
    /\ probed = <<>>
    /\ window = <<>>
    /\ stream \in SampleIds
    /\ proto \in Protocol
    /\ status = NoStatus
    /\ validated = FALSE
    /\ single = NoSingle
    /\ threads = [t \in Threads |-> IdleThread]

\* one more byte arrives
Recv ==
    /\ phase = "stream"
    /\ Len(data) < Len(Samples[stream])
    /\ data' = Append(data, Samples[stream][Len(data) + 1])
    /\ op' = "recv"
    /\ UNCHANGED <<phase, calls, result, probed, window, threads>>
    /\ UNCHANGED config_vars
    /\ UNCHANGED stream_vars

\* proto.probe_info(data)
ProbeInfo ==
    /\ phase = "stream"
    /\ LET c == probe_info_call(proto, data)
       IN  /\ status' = c.r
           /\ validated' = c.validated
    /\ op' = "probe_info"
    /\ UNCHANGED <<phase, calls, stream, proto, single>>
    /\ UNCHANGED config_vars
    /\ UNCHANGED call_vars

\* proto.detect(data)
ProtocolDetect ==
    /\ phase = "stream"
    /\ single' = protocol_detect(proto, data)
    /\ op' = "detect"
    /\ UNCHANGED <<phase, calls, stream, proto, status, validated>>
    /\ UNCHANGED config_vars
    /\ UNCHANGED call_vars

\* protocols::ssh::detect(data), the validator of src/protocols/ssh.rs asked
\* directly about the bytes read so far
SshDetect ==
    /\ phase = "stream"
    /\ proto = "Ssh"
    /\ single' = OkBool(ssh_detect(data))
    /\ op' = "ssh_detect"
    /\ UNCHANGED <<phase, calls, stream, proto, status, validated>>
    /\ UNCHANGED config_vars
    /\ UNCHANGED call_vars

\* ------------------------------------------------------------------------
\* Specifications
\* ------------------------------------------------------------------------

HttpVersionChoices == {"1.0", "1.1"}

TlsVersionChoices == {"1.2", "1.3"}

SshVersionChoices == {"2.0", "1.5"}

RedisVersionChoices == {"2", "3"}

NextBuilder ==
    \/ \E p \in Protocol : BuilderEnable(p)
    \/ BuilderAll
    \/ BuilderAllTcp
    \/ \E v \in HttpVersionChoices : BuilderHttpVersion(v)
    \/ \E v \in RedisVersionChoices : BuilderRedisVersion(v)
    \/ \E v \in TlsVersionChoices : BuilderTlsVersion(v)
    \/ \E v \in SshVersionChoices : BuilderSshVersion(v)
    \/ BuilderTcp
    \/ BuilderUdp
    \/ BuilderBuild
    \/ \E d \in Inputs : DetectInfo(d)

SpecBuilder == InitBuilder /\ [][NextBuilder]_vars

NextChain ==
    \/ \E n \in InspectChoices : ChainMaxInspectBytes(n)
    \/ \E p \in ChainPushable : ChainPush(p)
    \/ ChainAllTcp
    \/ ChainAllUdp
    \/ ChainAllDb
    \/ ChainAllWeb
    \/ ChainBuild
    \/ \E d \in Inputs : DetectInfo(d)

SpecChain == InitChain /\ [][NextChain]_vars

NextStream ==
    \/ Recv
    \/ ProbeInfo
    \/ ProtocolDetect
    \/ SshDetect

SpecStream == InitStream /\ [][NextStream]_vars

\* ------------------------------------------------------------------------
\* Properties of the detection engine with a priority order (SpecChain)
\* ------------------------------------------------------------------------

\* The slice the engine may inspect.
Inspected == Slice(data, 0, MinInt(Len(data), max_inspect_bytes))

\* Positions of `o` whose protocol has the given status on slice w.
PositionsWith(o, w, st) == {i \in 1..Len(o) : probe(o[i], w) = st}

\* C1: a chain-built detector returns the first protocol of its priority
\* order whose validator returns Match on the inspected window, and none
\* if no validator matches; for any two protocols P, Q that both match the
\* window, the order [P, Q] yields P (hence [Q, P] yields Q).
C1_FirstMatchWins ==
    (op = "detect_info" /\ priority_order # None) =>
        LET o == priority_order[1]
            m == PositionsWith(o, Inspected, "Match")
            both == {p \in Protocol : probe(p, Inspected) = "Match"}
        IN  /\ m # {} => /\ result.tag = "Ok"
                         /\ result.protocol = Some(o[MinOf(m)])
            /\ m = {} => result.protocol = None
            /\ \A P \in both : \A Q \in both :
                   detect(with_order(<<P, Q>>, max_inspect_bytes),
                          data).protocol = Some(P)

\* SMTP and FTP both match the greeting `220 mail.example.com ESMTP`; FTP is
\* listed first and is the one returned.
C1_Witness ==
    /\ op = "detect_info"
    /\ priority_order = Some(<<"Ftp", "Smtp">>)
    /\ data = Samples[21]
    /\ probe("Smtp", Inspected) = "Match"
    /\ probe("Ftp", Inspected) = "Match"
    /\ result.protocol = Some("Ftp")

\* C2: when no processed protocol matches, detect_info returns the
\* InsufficientData error exactly if some processed validator returned
\* Incomplete, and Ok(None) exactly if all returned NoMatch; an Incomplete
\* from an earlier protocol does not stop the loop, so a later Match is
\* still returned as Ok(Some).
C2_IncompleteAggregation ==
    (op = "detect_info" /\ priority_order # None) =>
        LET o == priority_order[1]
            m == PositionsWith(o, Inspected, "Match")
            inc == PositionsWith(o, Inspected, "Incomplete")
            no == PositionsWith(o, Inspected, "NoMatch")
        IN  /\ m = {} => /\ (result = ErrInsufficientData) <=> (inc # {})
                         /\ (result = OkNone) <=> (no = 1..Len(o))
            /\ m # {} => /\ result.tag = "Ok"
                         /\ result.protocol # None

\* NTP needs 48 bytes and reports Incomplete on a 16-byte HTTP request; the
\* HTTP entry after it still matches.
C2_Witness ==
    /\ op = "detect_info"
    /\ priority_order = Some(<<"Ntp", "Http">>)
    /\ data = Samples[1]
    /\ probed = <<(<<"Ntp", "Incomplete">>), (<<"Http", "Match">>)>>
    /\ result.protocol = Some("Http")

\* C3: the validators are handed exactly data[..min(len, max_inspect_bytes)];
\* cutting the input at any n with max_inspect_bytes <= n <= len leaves the
\* result unchanged, and so does any other input with the same first
\* max_inspect_bytes bytes.
C3_TruncationInvariance ==
    op = "detect_info" =>
        /\ window = Inspected
        /\ \A n \in max_inspect_bytes..Len(data) :
               detect_info(Det, Slice(data, 0, n)).result = result
        /\ \A e \in Inputs :
               Slice(e, 0, MinInt(Len(e), max_inspect_bytes)) = Inspected
                   => detect_info(Det, e).result = result

\* A call whose input is longer than the cap and still matches within it.
C3_Witness ==
    /\ op = "detect_info"
    /\ max_inspect_bytes = 8
    /\ Len(data) > max_inspect_bytes
    /\ Len(window) = 8
    /\ result.protocol # None


\* ------------------------------------------------------------------------
\* Properties of Protocol::probe_info and Protocol::detect (SpecStream)
\* ------------------------------------------------------------------------

\* C4: for every protocol P and every data shorter than P's minimum (HTTP 4,
\* TLS 5, SSH 4, DNS 12, QUIC 7, MySQL 10, PostgreSQL 8, Redis 1, MQTT 12,
\* SMTP 5, POP3 5, IMAP 5, FTP 5, SMB 4, STUN 20, SIP 12, RTSP 14, DHCP 44,
\* NTP 48), probe_info returns (Incomplete, Unknown) without calling the
\* validator.
C4_ShortDataIsIncomplete ==
    LET table == [Http |-> 4, Tls |-> 5, Ssh |-> 4, Dns |-> 12, Quic |-> 7,
                  Mysql |-> 10, Postgres |-> 8, Redis |-> 1, Mqtt |-> 12,
                  Smtp |-> 5, Pop3 |-> 5, Imap |-> 5, Ftp |-> 5, Smb |-> 4,
                  Stun |-> 20, Sip |-> 12, Rtsp |-> 14, Dhcp |-> 44,
                  Ntp |-> 48]
    IN  (op = "probe_info" /\ Len(data) < table[proto]) =>
            /\ status = PR("Incomplete", VUnknown)
            /\ ~validated

\* NTP asked about the first 47 bytes of an NTP client packet.
C4_Witness ==
    /\ op = "probe_info"
    /\ proto = "Ntp"
    /\ stream = 27
    /\ Len(data) = 47
    /\ status = PR("Incomplete", VUnknown)
    /\ ~validated

\* C6: Protocol::detect fails with InsufficientData whenever the data is
\* shorter than min_bytes(P), and otherwise returns Ok(true) if the validator
\* matches and Ok(false) if it does not.
C6_DetectSingleShortDataFails ==
    op = "detect" =>
        IF Len(data) < min_bytes(proto)
        THEN single = ErrBool
        ELSE single = OkBool(validator(proto, data).status = "Match")

\* C7: NoMatch is final on a growing stream: once probe_info has returned
\* NoMatch for the bytes read so far, no later call on an extension of them
\* returns Match (stated for the protocols whose validators are the detect
\* functions under src/protocols).
C7_NoMatchIsFinal ==
    [][(/\ proto \notin {"Http", "Tls", "Ssh", "Redis"}
        /\ status.status = "NoMatch")
            => status'.status # "Match"]_vars

\* ------------------------------------------------------------------------
\* Properties of builder-built detectors (SpecBuilder)
\* ------------------------------------------------------------------------

\* The version payload a configured expected version stands for.
ExpectedVersion(p, ev) ==
    CASE p = "Http" -> IF ev.http = None THEN None ELSE Some(VHttp(ev.http[1]))
      [] p = "Tls" -> IF ev.tls = None THEN None ELSE Some(VTls(ev.tls[1]))
      [] p = "Ssh" -> IF ev.ssh = None THEN None ELSE Some(VSsh(ev.ssh[1]))
      [] p = "Redis" ->
            IF ev.redis = None THEN None ELSE Some(VRedis(ev.redis[1]))
      [] OTHER -> None

\* C5: if an expected version v' is configured for P and P's validator
\* returns (Match, v) with v different from v', whatever the variant of v,
\* the engine never returns P for that input; if v equals v' and P is the
\* first protocol to match, P is returned.
C5_VersionFilter ==
    (op = "detect_info" /\ priority_order = None) =>
        \A P \in enabled :
            LET r == probe_info(P, window)
                e == ExpectedVersion(P, expected_versions)
            IN  (r.status = "Match" /\ e # None /\ r.version # e[1])
                    => result.protocol # Some(P)

\* C8: after build(), a Tcp-marked detector has none of the UDP-only
\* protocols (DNS, DHCP, NTP, QUIC, STUN) enabled, and a Udp-marked detector
\* has no TCP-only protocol enabled.
C8_TransportRestrictsEnabled ==
    LET udp_only == {"Dns", "Dhcp", "Ntp", "Quic", "Stun"}
        tcp_only == Protocol \ (udp_only \cup {"Sip", "Rtsp"})
    IN  phase \in {"detector", "called"} =>
            /\ transport = TransportTcp => enabled \cap udp_only = {}
            /\ transport = TransportUdp => enabled \cap tcp_only = {}

\* The protocols named by the entries of `probed`, in call order.
ProbedProtocols == [i \in 1..Len(probed) |-> probed[i][1]]

\* s is an initial segment of t
IsPrefix(s, t) == Len(s) <= Len(t) /\ \A i \in 1..Len(s) : s[i] = t[i]

\* C9: a builder-built detector probes its enabled protocols in one fixed
\* order beginning SSH, SIP, RTSP, IMAP, TLS, HTTP, up to the first Match,
\* and returns that match; the calls and the result are determined by the
\* set of enabled protocols, however and how often each was enabled.
C9_FixedDefaultOrder ==
    (op = "detect_info" /\ priority_order = None) =>
        LET fixed == <<"Ssh", "Sip", "Rtsp", "Imap", "Tls", "Http", "Dns",
                       "Smtp", "Ftp", "Dhcp", "Ntp", "Quic", "Mysql",
                       "Postgres", "Redis", "Mqtt", "Pop3", "Smb", "Stun">>
            on == SelectSeq(fixed, LAMBDA p : p \in enabled)
            n == Len(probed)
            m == {i \in 1..Len(on) :
                     check_protocol(expected_versions, on[i],
                                    window).status = "Match"}
        IN  /\ IsPrefix(ProbedProtocols, on)
            /\ n < Len(on) => (n > 0 /\ probed[n][2] = "Match")
            /\ m # {} => /\ n = MinOf(m)
                         /\ result.protocol = Some(on[n])
            /\ m = {} => /\ n = Len(on)
                         /\ result.protocol = None

\* SIP and HTTP are both enabled and both match an OPTIONS request for a
\* sip: URI; SIP comes first in the fixed order and is returned.
C9_Witness ==
    /\ op = "detect_info"
    /\ priority_order = None
    /\ enabled = {"Http", "Sip"}
    /\ data = Samples[24]
    /\ probe("Http", window) = "Match"
    /\ probed = << <<"Sip", "Match">> >>
    /\ result.protocol = Some("Sip")

\* C10: a Udp-marked detector without priority order probes in the order
\* DNS, STUN, DHCP, NTP, QUIC, SIP, RTSP and leaves the TCP-only protocols
\* out; a Tcp-marked detector leaves the UDP-only protocols out.
C10_TransportDefaultOrder ==
    (op = "detect_info" /\ priority_order = None) =>
        LET udp_order == <<"Dns", "Stun", "Dhcp", "Ntp", "Quic", "Sip",
                           "Rtsp">>
            udp_only == {"Dns", "Dhcp", "Ntp", "Quic", "Stun"}
        IN  /\ transport = TransportUdp =>
                IsPrefix(ProbedProtocols,
                         SelectSeq(udp_order, LAMBDA p : p \in enabled))
            /\ transport = TransportTcp =>
                \A i \in 1..Len(probed) : probed[i][1] \notin udp_only


\* ------------------------------------------------------------------------
\* Builder-built and chain-built detectors together (SpecDetector)
\* ------------------------------------------------------------------------

InitDetector == InitBuilder \/ InitChain

NextDetector ==
    \/ \E p \in Protocol : BuilderEnable(p)
    \/ BuilderAll
    \/ BuilderAllTcp
    \/ \E v \in HttpVersionChoices : BuilderHttpVersion(v)
    \/ \E v \in RedisVersionChoices : BuilderRedisVersion(v)
    \/ \E v \in TlsVersionChoices : BuilderTlsVersion(v)
    \/ \E v \in SshVersionChoices : BuilderSshVersion(v)
    \/ BuilderTcp
    \/ BuilderUdp
    \/ BuilderBuild
    \/ \E n \in InspectChoices : ChainMaxInspectBytes(n)
    \/ \E p \in ChainPushable : ChainPush(p)
    \/ ChainAllTcp
    \/ ChainAllUdp
    \/ ChainAllDb
    \/ ChainAllWeb
    \/ ChainBuild
    \/ \E d \in Inputs : DetectInfo(d)

SpecDetector == InitDetector /\ [][NextDetector]_vars

\* The protocols the detector is configured with: the entries of its
\* priority order, or its enabled set when it has none.
Configured ==
    IF priority_order # None
    THEN {priority_order[1][i] : i \in 1..Len(priority_order[1])}
    ELSE enabled

\* C11: when the inspected window is empty (max_inspect_bytes = 0, or empty
\* data), detect returns the InsufficientData error if at least one protocol
\* is enabled or in the chain, and Ok(None) if none is.
C11_EmptyWindow ==
    (op = "detect_info" /\ (max_inspect_bytes = 0 \/ data = <<>>)) =>
        /\ window = <<>>
        /\ Configured # {} => result = ErrInsufficientData
        /\ Configured = {} => result = OkNone

\* A chain with a cap of 0 asked about a non-empty input.
C11_Witness ==
    /\ op = "detect_info"
    /\ priority_order # None
    /\ max_inspect_bytes = 0
    /\ data = Samples[1]
    /\ Configured # {}
    /\ result = ErrInsufficientData


\* ------------------------------------------------------------------------
\* Properties of the TLS validator (SpecStream)
\* ------------------------------------------------------------------------

\* C12: a TLS handshake record with record-layer version 0x0301 whose
\* visible ClientHello legacy version is 0x0303 is reported as Match with
\* version Tls("1.2"); in particular the 11-byte input
\* 16 03 01 00 05 01 00 00 01 03 03 is.
C12_ClientHelloLegacyVersion ==
    (/\ op = "probe_info"
     /\ proto = "Tls"
     /\ Len(data) >= 11
     /\ Slice(data, 0, 3) = <<22, 3, 1>>
     /\ u16_be(B(data, 3), B(data, 4)) \in 1..16384
     /\ B(data, 5) = 1
     /\ Slice(data, 9, 11) = <<3, 3>>)
        => status = PR("Match", VTls("1.2"))


\* ------------------------------------------------------------------------
\* A caller reading a TLS-like record byte by byte and asking Protocol::Tls
\* ------------------------------------------------------------------------

MaxRecordLen == 10

\* The values the byte at offset i is drawn from: both sides of every
\* comparison made by tls::detect_tls_record and tls::validate_handshake.
RecordByteChoices(i) ==
    CASE i = 0 -> {19, 20, 21, 22, 23, 24}
      [] i = 1 -> {2, 3}
      [] i = 2 -> {4, 5}
      [] i = 3 -> {0, 64}
      [] i = 4 -> {0, 1, 2, 3, 4}
      [] i = 5 -> {0, 1, 2, 3, 11, 14}
      [] i = 6 -> {0}
      [] i = 7 -> {0, 1}
      [] i = 8 -> {0, 2, 3, 33, 34}
      [] OTHER -> {2, 3}

InitRecord ==
    /\ phase = "stream"
    /\ enabled = {}
    /\ order = <<>>
    /\ priority_order = None
    /\ max_inspect_bytes = MAX_INSPECT_BYTES
    /\ expected_versions = NoExpectedVersions
    /\ transport = TransportUnknown
    /\ calls = 0
    /\ op = "new"
    /\ data = <<>>
    /\ result = NoResult
    /\ probed = <<>>
    /\ window = <<>>
    /\ stream = 0
    /\ proto = "Tls"
    /\ status = NoStatus
    /\ validated = FALSE
    /\ single = NoSingle
    /\ threads = [t \in Threads |-> IdleThread]

\* one more byte of the record arrives
RecvRecordByte ==
    /\ phase = "stream"
    /\ Len(data) < MaxRecordLen
    /\ \E b \in RecordByteChoices(Len(data)) : data' = Append(data, b)
    /\ op' = "recv"
    /\ UNCHANGED <<phase, calls, result, probed, window, threads>>
    /\ UNCHANGED config_vars
    /\ UNCHANGED stream_vars

NextRecord ==
    \/ RecvRecordByte
    \/ ProbeInfo

SpecRecord == InitRecord /\ [][NextRecord]_vars

\* The record length announced by bytes 3 and 4.
RecordLength == u16_be(B(data, 3), B(data, 4))

\* The 3-byte handshake body length of bytes 6 to 8.
HandshakeBodyLength == (B(data, 6) * 256 + B(data, 7)) * 256 + B(data, 8)

RegisteredHandshakeTypes ==
    {0, 1, 2, 4, 5, 6, 8, 11, 12, 13, 14, 15, 16, 20, 24, 25, 254}

\* The record-layer reasons for rejection.
RecordRejected ==
    \/ B(data, 0) \notin 20..23
    \/ B(data, 1) # 3
    \/ B(data, 2) > 4
    \/ RecordLength = 0
    \/ RecordLength > 16384
    \/ (B(data, 0) = 20 /\ RecordLength # 1)
    \/ (B(data, 0) = 21 /\ RecordLength # 2)
    \/ (B(data, 0) = 22 /\ Len(data) >= 6
        /\ B(data, 5) \notin RegisteredHandshakeTypes)

\* The handshake body-length reasons for rejection.
HandshakeLengthRejected ==
    /\ B(data, 0) = 22
    /\ Len(data) >= 9
    /\ \/ (B(data, 5) \in {1, 2} /\ HandshakeBodyLength < 34)
       \/ (B(data, 5) = 11 /\ HandshakeBodyLength < 3)
       \/ (B(data, 5) \in {0, 14} /\ HandshakeBodyLength # 0)

\* Two more reasons: a handshake record too short for a handshake header,
\* and a hello whose inner version does not begin with 0x03.
HandshakeHeaderRejected ==
    /\ B(data, 0) = 22
    /\ \/ RecordLength < 4
       \/ (Len(data) >= 10 /\ B(data, 5) \in {1, 2} /\ B(data, 9) # 3)

TlsRecordProbed ==
    /\ op = "probe_info"
    /\ proto = "Tls"
    /\ Len(data) >= 5
    /\ B(data, 0) < 128

OkCrLf == <<43, 79, 75, 13, 10>>  \* b"+OK\r\n"

\* A printable line that starts with `+OK ` and ends at its only newline.
IsOkLine(w) ==
    /\ Len(w) >= 5
    /\ Slice(w, 0, 4) = <<43, 79, 75, 32>>
    /\ w[Len(w)] = 10
    /\ \A i \in 1..(Len(w) - 1) :
           \/ (w[i] >= 32 /\ w[i] <= 126)
           \/ (w[i] = 13 /\ i = Len(w) - 1)

\* C14: on `+OK\r\n` the POP3 validator returns NoMatch and the Redis
\* validator returns Match; on a newline-terminated printable line starting
\* with `+OK ` both return Match, so the chain [Redis, POP3] returns Redis
\* and the chain [POP3, Redis] returns POP3.
C14_RedisPop3Disambiguation ==
    (op = "detect_info" /\ priority_order # None) =>
        /\ Inspected = OkCrLf =>
               /\ probe("Pop3", Inspected) = "NoMatch"
               /\ probe("Redis", Inspected) = "Match"
               /\ priority_order = Some(<<"Pop3", "Redis">>) =>
                      /\ probed = << <<"Pop3", "NoMatch">>, <<"Redis", "Match">> >>
                      /\ result.protocol = Some("Redis")
               /\ priority_order = Some(<<"Redis", "Pop3">>) =>
                      /\ probed = << <<"Redis", "Match">> >>
                      /\ result.protocol = Some("Redis")
        /\ IsOkLine(Inspected) =>
               /\ probe("Pop3", Inspected) = "Match"
               /\ probe("Redis", Inspected) = "Match"
               /\ priority_order = Some(<<"Redis", "Pop3">>) =>
                      result.protocol = Some("Redis")
               /\ priority_order = Some(<<"Pop3", "Redis">>) =>
                      result.protocol = Some("Pop3")

\* The chain [POP3, Redis] asked about `+OK\r\n`: POP3 declines, Redis wins.
C14_Witness ==
    /\ op = "detect_info"
    /\ priority_order = Some(<<"Pop3", "Redis">>)
    /\ Inspected = OkCrLf
    /\ probed = << <<"Pop3", "NoMatch">>, <<"Redis", "Match">> >>
    /\ result.protocol = Some("Redis")

\* The chain [POP3, Redis] asked about a POP3 greeting that both accept.
C14_WitnessLine ==
    /\ op = "detect_info"
    /\ priority_order = Some(<<"Pop3", "Redis">>)
    /\ IsOkLine(Inspected)
    /\ result.protocol = Some("Pop3")


\* ------------------------------------------------------------------------
\* The whole library: detectors of both builders and single Protocol values
\* ------------------------------------------------------------------------

InitProgram == InitDetector \/ InitStream

NextProgram == NextDetector \/ NextStream

SpecProgram == InitProgram /\ [][NextProgram]_vars

ConcurrentInputs ==
    {Samples[1], Samples[19], Samples[20], Samples[21], <<71>>}

\* detect_info up to the loop: the slice is cut to the window.
detect_info_enter(det, d) ==
    [pc |-> "loop", data |-> d,
     window |-> Slice(d, 0, MinInt(Len(d), det.max_inspect_bytes)),
     i |-> 1, any_incomplete |-> FALSE, result |-> NoResult]

\* One iteration of the loop taking the Incomplete arm for every answer
\* that is not a Match.
detect_info_step_all_incomplete(det, local) ==
    LET o == IF det.priority_order # None THEN det.priority_order[1] ELSE DefaultOrder
        r == check_protocol(det.expected_versions, o[local.i], local.window)
    IN  IF local.i > Len(o)
        THEN [local EXCEPT !.pc = "done", !.result = IF local.any_incomplete THEN ErrInsufficientData ELSE OkNone]
        ELSE IF det.priority_order = None /\ o[local.i] \notin det.enabled
        THEN [local EXCEPT !.i = local.i + 1]
        ELSE IF r.status = "Panic"
        THEN [local EXCEPT !.pc = "done", !.result = Panicked]
        ELSE IF r.status = "Match"
        THEN [local EXCEPT !.pc = "done", !.result = OkSome(o[local.i], r.version)]
        ELSE [local EXCEPT !.i = local.i + 1, !.any_incomplete = TRUE]

\* One iteration of the loop of detect_info, or its return after the loop.
detect_info_step(det, local) ==
    LET o == IF det.priority_order # None THEN det.priority_order[1] ELSE DefaultOrder
        r == check_protocol(det.expected_versions, o[local.i], local.window)
    IN  IF local.i > Len(o)
        THEN [local EXCEPT !.pc = "done", !.result = IF local.any_incomplete THEN ErrInsufficientData ELSE OkNone]
        ELSE IF det.priority_order = None /\ o[local.i] \notin det.enabled
        THEN [local EXCEPT !.i = local.i + 1]
        ELSE IF r.status = "Panic"
        THEN [local EXCEPT !.pc = "done", !.result = Panicked]
        ELSE IF r.status = "Match"
        THEN [local EXCEPT !.pc = "done", !.result = OkSome(o[local.i], r.version)]
        ELSE [local EXCEPT !.i = local.i + 1, !.any_incomplete = local.any_incomplete \/ r.status = "Incomplete"]

\* caller t calls detector.detect_info(d)
ThreadCall(t, d) ==
    /\ phase = "detector"
    /\ threads[t].pc = "idle"
    /\ threads' = [threads EXCEPT ![t] = detect_info_enter(Det, d)]
    /\ op' = "thread_call"
    /\ UNCHANGED <<phase, calls, data, result, probed, window>>
    /\ UNCHANGED config_vars
    /\ UNCHANGED stream_vars

\* caller t runs one iteration of its loop
ThreadStep(t) ==
    /\ phase = "detector"
    /\ threads[t].pc = "loop"
    /\ threads' = [threads EXCEPT ![t] = detect_info_step(Det, threads[t])]
    /\ op' = "thread_step"
    /\ UNCHANGED <<phase, calls, data, result, probed, window>>
    /\ UNCHANGED config_vars
    /\ UNCHANGED stream_vars

\* ProtocolChainBuilder::from_slice(o).max_inspect_bytes(n).build(), shared
\* by the callers.
InitConcurrent ==
    /\ phase = "detector"
    /\ order \in SliceChoices
    /\ max_inspect_bytes \in InspectChoices \cup {MAX_INSPECT_BYTES}
    /\ enabled = with_order(order, max_inspect_bytes).enabled
    /\ priority_order = with_order(order, max_inspect_bytes).priority_order
    /\ expected_versions = with_order(order, max_inspect_bytes).expected_versions
    /\ transport = with_order(order, max_inspect_bytes).transport
    /\ calls = 0
    /\ op = "build"
    /\ data = <<>>
    /\ result = NoResult
    /\ probed = <<>>
    /\ window = <<>>
    /\ stream = 0
    /\ proto = "Http"
    /\ status = NoStatus
    /\ validated = FALSE
    /\ single = NoSingle
    /\ threads = [t \in Threads |-> IdleThread]

NextConcurrent ==
    \/ \E t \in Threads : \E d \in ConcurrentInputs : ThreadCall(t, d)
    \/ \E t \in Threads : ThreadStep(t)

SpecConcurrent == InitConcurrent /\ [][NextConcurrent]_vars

C17_OnlyConfigured ==
    op = "detect_info" =>
        /\ result.protocol # None => result.protocol[1] \in Configured
        /\ \A k \in 1..Len(probed) : probed[k][1] \in Configured
        /\ result = ErrInsufficientData =>
               \E p \in Configured : probe(p, Inspected) = "Incomplete"
        /\ Configured = {} => result = OkNone
        /\ (Configured = {"Http"} /\ starts_with(Inspected, <<83, 83, 72, 45>>))
               => result = OkNone

\* A builder-built HTTP-only detector asked about an SSH banner.
C17_Witness ==
    /\ op = "detect_info"
    /\ priority_order = None
    /\ enabled = {"Http"}
    /\ data = Samples[9]
    /\ probe("Ssh", Inspected) = "Match"
    /\ probed = << <<"Http", "NoMatch">> >>
    /\ result = OkNone


\* ------------------------------------------------------------------------
\* Properties of the whole library (SpecProgram)
\* ------------------------------------------------------------------------

\* The version variants a protocol may report.
ValidVersionFor(p, version) ==
    \/ version = VUnknown
    \/ (p = "Http" /\ version.variant = "Http")
    \/ (p = "Tls" /\ version.variant = "Tls")
    \/ (p = "Ssh" /\ version.variant = "Ssh")
    \/ (p = "Redis" /\ version \in {VRedis("2"), VRedis("3")})

\* C18: every Match carries a version variant valid for its protocol:
\* Http(_) or Unknown for HTTP, Tls(_) or Unknown for TLS, Ssh(_) or Unknown
\* for SSH, Redis(2), Redis(3) or Unknown for Redis, Unknown for each of
\* the other 15; a Match turned into NoMatch by the version filter carries
\* Unknown.
C18_ValidVersionVariant ==
    /\ (op = "probe_info" /\ status.status = "Match")
           => ValidVersionFor(proto, status.version)
    /\ (op = "detect_info" /\ result.protocol # None)
           => ValidVersionFor(result.protocol[1], result.version)
    /\ op = "detect_info" =>
           \A k \in 1..Len(probed) :
               (probed[k][2] = "NoMatch" /\ probe(probed[k][1], window) = "Match")
                   => check_protocol(expected_versions, probed[k][1], window)
                          = PR("NoMatch", VUnknown)

\* A detector expecting one HTTP version turns the Match of the other
\* version into NoMatch.
C18_Witness ==
    /\ op = "detect_info"
    /\ expected_versions.http # None
    /\ \E k \in 1..Len(probed) :
           /\ probed[k] = <<"Http", "NoMatch">>
           /\ probe_info("Http", window).status = "Match"
           /\ probe_info("Http", window).version.variant = "Http"


\* ------------------------------------------------------------------------
\* Duplicates in a priority order (SpecChain)
\* ------------------------------------------------------------------------

\* o with every occurrence of a protocol after its first removed.
RemoveRepeats(o) ==
    LET F[i \in 0..Len(o)] ==
            IF i = 0 THEN <<>>
            ELSE IF \E j \in 1..(i - 1) : o[j] = o[i] THEN F[i - 1]
            ELSE Append(F[i - 1], o[i])
    IN  F[Len(o)]

\* C19: duplicates in a priority order are harmless: the detector built
\* from an order O (from_slice or repeated chain calls) returns on every
\* input what the detector built from O without its repeated occurrences
\* returns.
C19_DuplicatesHarmless ==
    (op = "detect_info" /\ priority_order # None) =>
        result = detect_info(with_order(RemoveRepeats(priority_order[1]),
                                        max_inspect_bytes), data).result

\* The chain [HTTP, HTTP] asked about `G`: HTTP is consulted twice, is
\* Incomplete twice, and the answer is the one of the chain [HTTP].
C19_Witness ==
    /\ op = "detect_info"
    /\ priority_order = Some(<<"Http", "Http">>)
    /\ RemoveRepeats(priority_order[1]) = <<"Http">>
    /\ probed = << <<"Http", "Incomplete">>, <<"Http", "Incomplete">> >>
    /\ result = ErrInsufficientData


\* ------------------------------------------------------------------------
\* Properties of the SSH validator (SpecStream)
\* ------------------------------------------------------------------------

\* The first offset from 4 on, within the first 64 bytes, that holds a `\n`
\* or a byte that is neither printable ASCII, CR nor tab; -1 if none.
SshScanStop ==
    LET stops == {i \in 4..(MinInt(Len(data), 64) - 1) :
                    \/ B(data, i) = 10
                    \/ (B(data, i) \notin {13, 9}
                        /\ (B(data, i) < 32 \/ B(data, i) > 126))}
    IN  IF stops = {} THEN -1 ELSE MinOf(stops)

\* C20: on an input of at least 8 bytes the SSH validator answers NoMatch
\* unless the input starts with `SSH-2.0-`, `SSH-1.99-` or `SSH-1.5-` and
\* every byte from offset 4 up to the first `\n` within the first 64 bytes
\* is printable ASCII, CR or tab; otherwise Match if a `\n` was seen or the
\* length is at least 16, and Incomplete if neither.
C20_SshValidator ==
    (op = "ssh_detect" /\ Len(data) >= 8) =>
        bool_to_status(single.value) =
            IF \/ /\ ~starts_with(data, <<83, 83, 72, 45, 50, 46, 48, 45>>)
                  /\ ~starts_with(data, <<83, 83, 72, 45, 49, 46, 57, 57, 45>>)
                  /\ ~starts_with(data, <<83, 83, 72, 45, 49, 46, 53, 45>>)
               \/ (SshScanStop # -1 /\ B(data, SshScanStop) # 10)
            THEN "NoMatch"
            ELSE IF SshScanStop # -1 \/ Len(data) >= 16 THEN "Match"
            ELSE "Incomplete"

\* ------------------------------------------------------------------------
\* A caller reading HTTP-like text byte by byte and asking the HTTP validator
\* ------------------------------------------------------------------------

\* Bytes that may follow a word after the text has left it.
MaxNoise == 1

\* The texts the peer may be sending: every method with a target, the
\* method names continued by letters or cut by a NUL, other letter cases,
\* the status lines and the HTTP/2 connection preface.
HttpWords ==
    {m \o <<47>> (* b"/" *) : m \in HttpMethods}
        \cup {<<80, 79, 83, 84, 77, 65, 78, 32>> (* b"POSTMAN " *), <<71, 69, 84, 84, 69, 82, 32, 47>> (* b"GETTER /" *), <<71, 69, 84, 0, 47>> (* b"GET\x00/" *), <<103, 101, 116, 32, 47>> (* b"get /" *), <<71, 101, 116, 32, 47>> (* b"Get /" *),
              <<112, 111, 115, 116, 32, 47>> (* b"post /" *), <<112, 65, 84, 67, 72, 32, 47>> (* b"pATCH /" *), <<72, 84, 84, 80, 47, 49, 46, 48, 32, 50>> (* b"HTTP/1.0 2" *), <<72, 84, 84, 80, 47, 49, 46, 49, 32, 50>> (* b"HTTP/1.1 2" *),
              <<72, 84, 84, 80, 47, 50, 32, 50>> (* b"HTTP/2 2" *), <<72, 84, 84, 80, 47, 50, 46, 48, 32, 50>> (* b"HTTP/2.0 2" *), <<80, 82, 73, 32, 109, 101, 116, 104, 111, 100>> (* b"PRI method" *), H2Preface}

\* A byte that is not the next byte of the word: NUL, CR, space, `*`, `/`,
\* `M` and a non-ASCII byte.
NoiseBytes == {0, 13, 32, 42, 47, 77, 195}

OnWord(words, d) ==
    \E w \in words : Len(d) <= Len(w) /\ SubSeq(w, 1, Len(d)) = d

\* Number of trailing bytes of d after its longest prefix on a word.
NoiseCount(words, d) ==
    Len(d) - CHOOSE k \in 0..Len(d) :
                 /\ OnWord(words, SubSeq(d, 1, k))
                 /\ \A j \in (k + 1)..Len(d) : ~OnWord(words, SubSeq(d, 1, j))

NextBytes(words, d) ==
    {w[Len(d) + 1] :
        w \in {w \in words : Len(w) > Len(d) /\ SubSeq(w, 1, Len(d)) = d}}
        \cup (IF NoiseCount(words, d) < MaxNoise THEN NoiseBytes ELSE {})

InitHttp ==
    /\ phase = "stream"
    /\ enabled = {}
    /\ order = <<>>
    /\ priority_order = None
    /\ max_inspect_bytes = MAX_INSPECT_BYTES
    /\ expected_versions = NoExpectedVersions
    /\ transport = TransportUnknown
    /\ calls = 0
    /\ op = "new"
    /\ data = <<>>
    /\ result = NoResult
    /\ probed = <<>>
    /\ window = <<>>
    /\ stream = 0
    /\ proto = "Http"
    /\ status = NoStatus
    /\ validated = FALSE
    /\ single = NoSingle
    /\ threads = [t \in Threads |-> IdleThread]

\* one more byte of the text arrives
RecvHttpByte ==
    /\ phase = "stream"
    /\ \E b \in NextBytes(HttpWords, data) : data' = Append(data, b)
    /\ op' = "recv"
    /\ UNCHANGED <<phase, calls, result, probed, window, threads>>
    /\ UNCHANGED config_vars
    /\ UNCHANGED stream_vars

\* protocols::http::detect(data), the validator of src/protocols/http.rs
\* asked directly about the bytes read so far
HttpDetect ==
    /\ phase = "stream"
    /\ proto = "Http"
    /\ single' = OkBool(http_detect(data))
    /\ op' = "http_detect"
    /\ UNCHANGED <<phase, calls, stream, proto, status, validated>>
    /\ UNCHANGED config_vars
    /\ UNCHANGED call_vars

NextHttp ==
    \/ RecvHttpByte
    \/ ProbeInfo
    \/ HttpDetect

SpecHttp == InitHttp /\ [][NextHttp]_vars

\* The eight method names, without the separator.
HttpMethodNames == {SubSeq(m, 1, Len(m) - 1) : m \in HttpMethods}

to_ascii_uppercase(b) == IF is_ascii_lowercase(b) THEN b - 32 ELSE b

\* The HTTP validator has just been asked about `data`.
HttpAsked == op \in {"probe_info", "http_detect"}

\* ... and answered Match.
HttpMatched ==
    \/ op = "probe_info" /\ status.status = "Match"
    \/ op = "http_detect" /\ single = OkBool(TRUE)

\* C21: the HTTP validator never answers Match for an input that starts
\* with a method name not immediately followed by a space, nor for one whose
\* byte right after `METHOD ` is visible and is not `/`, `*` or ASCII
\* alphanumeric, nor for a method written in lower or mixed case; it answers
\* Match for each of the eight methods followed by a space and a valid
\* target start.
C21_HttpRequestExact ==
    HttpAsked =>
        /\ (\E n \in HttpMethodNames :
               /\ starts_with(data, n)
               /\ Len(data) > Len(n)
               /\ B(data, Len(n)) # 32)
              => ~HttpMatched
        /\ (\E m \in HttpMethods :
               /\ starts_with(data, m)
               /\ Len(data) > Len(m)
               /\ B(data, Len(m)) \notin {47, 42}
               /\ ~is_ascii_alphanumeric(B(data, Len(m))))
              => ~HttpMatched
        /\ (\E n \in HttpMethodNames :
               /\ Len(data) >= Len(n)
               /\ SubSeq(data, 1, Len(n)) # n
               /\ [i \in 1..Len(n) |-> to_ascii_uppercase(data[i])] = n)
              => ~HttpMatched
        /\ (\E m \in HttpMethods :
               /\ starts_with(data, m)
               /\ Len(data) > Len(m)
               /\ \/ B(data, Len(m)) \in {47, 42}
                  \/ is_ascii_alphanumeric(B(data, Len(m))))
              => HttpMatched

\* http::detect has been asked about `POSTMAN ` or about `GET\0/` and has
\* declined.
C21_Witness ==
    /\ op = "http_detect"
    /\ \/ data = <<80, 79, 83, 84, 77, 65, 78, 32>> (* b"POSTMAN " *) /\ single = OkBool(FALSE)
       \/ data = <<71, 69, 84, 0, 47>> (* b"GET\x00/" *) /\ single = OkBool(FALSE)

\* http::detect has been asked about `DELETE /` and has accepted.
C21_WitnessMatch ==
    /\ op = "http_detect"
    /\ data = <<68, 69, 76, 69, 84, 69, 32, 47>> (* b"DELETE /" *)
    /\ single = OkBool(TRUE)

\* The answer of the HTTP validator as a DetectionStatus; http::detect is
\* two-valued and goes through bool_to_status as the other validators do.
HttpAnswer ==
    IF op = "probe_info" THEN status.status ELSE bool_to_status(single.value)

\* C22: for an input of at least 4 bytes starting with `PRI `, the HTTP
\* validator answers Match only when the input starts with the full 24-byte
\* preface, Incomplete exactly when the input is a strict prefix of the
\* preface, and NoMatch when it deviates from the preface.
C22_H2Preface ==
    (HttpAsked /\ starts_with(data, <<80, 82, 73, 32>> (* b"PRI " *))) =>
        /\ HttpAnswer = "Match" => starts_with(data, H2Preface)
        /\ HttpAnswer = "Incomplete" <=> is_strict_prefix(data, H2Preface)
        /\ (~starts_with(data, H2Preface) /\ ~is_strict_prefix(data, H2Preface))
              => HttpAnswer = "NoMatch"

\* ------------------------------------------------------------------------
\* A caller reading RESP-like text byte by byte and asking the Redis validator
\* ------------------------------------------------------------------------

\* The texts the peer may be sending: one reply or request per RESP marker
\* and the inline commands.
RedisWords ==
    {<<43, 79, 75, 13, 10>> (* b"+OK\x0d\x0a" *), <<45, 69, 82, 82, 32, 120, 13, 10>> (* b"-ERR x\x0d\x0a" *), <<58, 45, 49, 13, 10>> (* b":-1\x0d\x0a" *), <<36, 54, 13, 10, 102, 111, 111>> (* b"$6\x0d\x0afoo" *), <<36, 45, 49, 13, 10>> (* b"$-1\x0d\x0a" *),
     <<42, 49, 13, 10, 36, 52, 13, 10, 80, 73, 78, 71, 13, 10>> (* b"*1\x0d\x0a$4\x0d\x0aPING\x0d\x0a" *), <<95, 13, 10>> (* b"_\x0d\x0a" *), <<35, 116, 13, 10>> (* b"#t\x0d\x0a" *), <<44, 49, 46, 50, 51, 13, 10>> (* b",1.23\x0d\x0a" *), <<44, 105, 110, 102, 13, 10>> (* b",inf\x0d\x0a" *),
     <<33, 51, 13, 10>> (* b"!3\x0d\x0a" *), <<61, 53, 13, 10>> (* b"=5\x0d\x0a" *), <<40, 49, 50, 13, 10>> (* b"(12\x0d\x0a" *), <<37, 49, 13, 10>> (* b"%1\x0d\x0a" *), <<126, 49, 13, 10>> (* b"~1\x0d\x0a" *), <<62, 49, 13, 10>> (* b">1\x0d\x0a" *),
     <<80, 73, 78, 71, 13, 10>> (* b"PING\x0d\x0a" *), <<83, 69, 84, 32, 102, 111, 111>> (* b"SET foo" *), <<71, 69, 84, 32, 102, 111, 111, 13, 10>> (* b"GET foo\x0d\x0a" *), <<71, 69, 84, 32, 47, 32, 72, 84, 84, 80>> (* b"GET / HTTP" *)}

InitRedis ==
    /\ phase = "stream"
    /\ enabled = {}
    /\ order = <<>>
    /\ priority_order = None
    /\ max_inspect_bytes = MAX_INSPECT_BYTES
    /\ expected_versions = NoExpectedVersions
    /\ transport = TransportUnknown
    /\ calls = 0
    /\ op = "new"
    /\ data = <<>>
    /\ result = NoResult
    /\ probed = <<>>
    /\ window = <<>>
    /\ stream = 0
    /\ proto = "Redis"
    /\ status = NoStatus
    /\ validated = FALSE
    /\ single = NoSingle
    /\ threads = [t \in Threads |-> IdleThread]

\* one more byte of the text arrives
RecvRedisByte ==
    /\ phase = "stream"
    /\ \E b \in NextBytes(RedisWords, data) : data' = Append(data, b)
    /\ op' = "recv"
    /\ UNCHANGED <<phase, calls, result, probed, window, threads>>
    /\ UNCHANGED config_vars
    /\ UNCHANGED stream_vars

\* protocols::redis::detect(data), the validator of src/protocols/redis.rs
\* asked directly about the bytes read so far
RedisDetect ==
    /\ phase = "stream"
    /\ proto = "Redis"
    /\ single' = OkBool(redis_detect(data))
    /\ op' = "redis_detect"
    /\ UNCHANGED <<phase, calls, stream, proto, status, validated>>
    /\ UNCHANGED config_vars
    /\ UNCHANGED call_vars

NextRedis ==
    \/ RecvRedisByte
    \/ ProbeInfo
    \/ RedisDetect

SpecRedis == InitRedis /\ [][NextRedis]_vars

\* The Redis validator has just been asked about `data`.
RedisAsked == op \in {"probe_info", "redis_detect"}

\* Its answer as a DetectionStatus; redis::detect is two-valued and goes
\* through bool_to_status as the other validators do.
RedisAnswer ==
    IF op = "probe_info" THEN status.status ELSE bool_to_status(single.value)

\* C23: the Redis validator answers NoMatch for every input whose first
\* byte is not one of the 14 RESP markers, Incomplete when only a marker
\* byte is visible and, with two or more bytes, Match iff the second byte
\* satisfies the marker's grammar, reporting Redis(2) for the markers
\* + - : $ * and Redis(3) for the RESP3 markers.
C23_RedisValidator ==
    (RedisAsked /\ data # <<>>) =>
        IF B(data, 0) \notin Resp2Markers \cup Resp3Markers
        THEN RedisAnswer = "NoMatch"
        ELSE IF Len(data) = 1 THEN RedisAnswer = "Incomplete"
        ELSE /\ RedisAnswer = "Match"
                   <=> redis_second_byte_ok(B(data, 0), B(data, 1))
             /\ (op = "probe_info" /\ RedisAnswer = "Match")
                   => status.version =
                          IF B(data, 0) \in Resp2Markers
                          THEN VRedis("2") ELSE VRedis("3")

\* ------------------------------------------------------------------------
\* A caller reading a DNS message byte by byte and asking Protocol::Dns
\* ------------------------------------------------------------------------

MaxDnsLen == 15

\* The values the next byte is drawn from, given the form the peer uses
\* ("udp": the header comes first, "tcp": a 2-byte length comes first) and
\* the bytes d sent so far: both sides of every comparison made by
\* dns::validate_dns_header and dns::detect.  A datagram ends after its
\* first label length.
DnsByteChoices(form, d) ==
    LET tcp == form = "tcp"
        i   == IF tcp THEN Len(d) - 2 ELSE Len(d)   \* offset in the header
    IN  CASE i = -2 -> {0}
          [] i = -1 -> {11, 12, 29}
          [] i = 0  -> IF tcp THEN {1, 24, 129} ELSE {18}
          [] i = 1  -> IF tcp THEN {0} ELSE {52}
          [] i = 2  -> IF tcp THEN {0, 1, 24, 128}
                       ELSE {1, 8, 16, 24, 32, 40, 48, 128, 152}
          [] i = 3  -> IF tcp THEN {0, 3, 64} ELSE {0, 16, 32, 64, 131}
          [] i = 4  -> {0, 1}
          [] i = 5  -> IF d[Len(d)] = 1 THEN {0}
                       ELSE IF tcp THEN {0, 1, 11}
                       ELSE {0, 1, 10, 11, 200, 201}
          [] i = 6  -> {0}
          [] i = 7  -> IF tcp THEN {0, 1} ELSE {0, 1, 200, 201}
          [] i = 8  -> {0}
          [] i = 9  -> IF tcp THEN {0, 101} ELSE {0, 1, 100, 101, 201}
          [] i = 10 -> IF tcp THEN {0, 64} ELSE {0}
          [] i = 11 -> IF tcp THEN {0, 6} ELSE {0, 5, 6, 100, 101, 201}
          [] i = 12 -> {0, 63, 64}
          [] OTHER  -> IF tcp THEN {119} ELSE {}

InitDns ==
    /\ phase = "stream"
    /\ enabled = {}
    /\ order = <<>>
    /\ priority_order = None
    /\ max_inspect_bytes = MAX_INSPECT_BYTES
    /\ expected_versions = NoExpectedVersions
    /\ transport = TransportUnknown
    /\ calls = 0
    /\ op = "new"
    /\ data = <<>>
    /\ result = NoResult
    /\ probed = <<>>
    /\ window = <<>>
    /\ stream \in {"udp", "tcp"}
    /\ proto = "Dns"
    /\ status = NoStatus
    /\ validated = FALSE
    /\ single = NoSingle
    /\ threads = [t \in Threads |-> IdleThread]

\* one more byte of the message arrives
RecvDnsByte ==
    /\ phase = "stream"
    /\ Len(data) < MaxDnsLen
    /\ \E b \in DnsByteChoices(stream, data) : data' = Append(data, b)
    /\ op' = "recv"
    /\ UNCHANGED <<phase, calls, result, probed, window, threads>>
    /\ UNCHANGED config_vars
    /\ UNCHANGED stream_vars

NextDns ==
    \/ RecvDnsByte
    \/ ProbeInfo

SpecDns == InitDns /\ [][NextDns]_vars

\* Fields of a 12-byte header h.
DnsQr(h) == (B(h, 2) \div 128) % 2

DnsOpcode(h) == (B(h, 2) \div 8) % 16

DnsCount(h, k) == u16_be(B(h, 4 + 2 * k), B(h, 5 + 2 * k))

DnsQueryCountsOk(h) ==
    /\ DnsCount(h, 0) \in 1..10
    /\ DnsCount(h, 1) = 0
    /\ DnsCount(h, 2) = 0
    /\ DnsCount(h, 3) <= 5

DnsTotal(h) == DnsCount(h, 0) + DnsCount(h, 1) + DnsCount(h, 2) + DnsCount(h, 3)

\* The headers the statement lists: Z is bit 6 of byte 3 and every count of
\* a response is at most 200.
DnsHeaderListed(h) ==
    /\ DnsOpcode(h) \in {0, 1, 2, 4, 5}
    /\ (B(h, 3) \div 64) % 2 = 0
    /\ DnsTotal(h) > 0
    /\ IF DnsQr(h) = 0 THEN DnsQueryCountsOk(h)
       ELSE \A k \in 0..3 : DnsCount(h, k) \in 0..200

\* The same with Z the three bits 4..6 of byte 3 and the counts of a
\* response bounded by 10, 200, 100 and 100.
DnsHeaderListedAmended(h) ==
    /\ DnsOpcode(h) \in {0, 1, 2, 4, 5}
    /\ (B(h, 3) \div 16) % 8 = 0
    /\ DnsTotal(h) > 0
    /\ IF DnsQr(h) = 0 THEN DnsQueryCountsOk(h)
       ELSE /\ DnsCount(h, 0) <= 10
            /\ DnsCount(h, 1) <= 200
            /\ DnsCount(h, 2) <= 100
            /\ DnsCount(h, 3) <= 100

\* Protocol::Dns has just been asked about a bare 12-byte header ...
DnsUdpHeaderProbed == op = "probe_info" /\ Len(data) = 12

\* ... or about a length of at least 12 and a 12-byte header, 14 bytes that
\* dns::detect does not take for the UDP form.
DnsTcpHeaderProbed ==
    /\ op = "probe_info"
    /\ Len(data) = 14
    /\ ~validate_dns_header(Slice(data, 0, 12))
    /\ u16_be(B(data, 0), B(data, 1)) >= 12

\* C24: the 12-byte header validation accepts exactly the headers with
\* opcode in {0,1,2,4,5}, bit 6 of byte 3 zero, total of the four counts
\* positive and, for QR=0, qdcount in 1..=10, ancount = 0, nscount = 0,
\* arcount <= 5, for QR=1 each count in 0..=200; at offset 0 (UDP form) and
\* at offset 2 (TCP form) alike.
C24_DnsHeader ==
    /\ DnsUdpHeaderProbed
          => (status.status = "Match" <=> DnsHeaderListed(Slice(data, 0, 12)))
    /\ DnsTcpHeaderProbed
          => (status.status = "Match" <=> DnsHeaderListed(Slice(data, 2, 14)))

\* C24, amended: the same with the Z field the three bits 4..6 of byte 3
\* and, for QR=1, qdcount <= 10, ancount <= 200, nscount <= 100 and
\* arcount <= 100.
C24_DnsHeaderAmended ==
    /\ DnsUdpHeaderProbed
          => (status.status = "Match"
                 <=> DnsHeaderListedAmended(Slice(data, 0, 12)))
    /\ DnsTcpHeaderProbed
          => (status.status = "Match"
                 <=> DnsHeaderListedAmended(Slice(data, 2, 14)))

\* A response announcing 101 authority records, within the 200 of the
\* statement, has been declined.
C24_Witness ==
    /\ DnsUdpHeaderProbed
    /\ DnsQr(data) = 1
    /\ DnsHeaderListed(data)
    /\ DnsCount(data, 2) = 101
    /\ status.status = "NoMatch"

\* A header in the TCP form has been accepted.
C24_WitnessTcp ==
    /\ DnsTcpHeaderProbed
    /\ status.status = "Match"

\* The UDP form of the statement: header at offset 0 valid and, when a 13th
\* byte is visible and qdcount > 0, first label length <= 63.
DnsUdpFormValid(d) ==
    /\ validate_dns_header(Slice(d, 0, 12))
    /\ (Len(d) >= 13 /\ u16_be(B(d, 4), B(d, 5)) > 0) => B(d, 12) <= 63

\* The TCP form: length prefix >= 12, header at offset 2 valid and, when a
\* 15th byte is visible and qdcount > 0, label length <= 63.
DnsTcpFormValid(d) ==
    /\ Len(d) >= 14
    /\ u16_be(B(d, 0), B(d, 1)) >= 12
    /\ validate_dns_header(Slice(d, 2, 14))
    /\ (Len(d) >= 15 /\ u16_be(B(d, 6), B(d, 7)) > 0) => B(d, 14) <= 63

\* C27: for every input of at least 12 bytes the DNS validator matches iff
\* the UDP form is valid or the TCP form is valid; the early return on an
\* over-long first label in the UDP branch never suppresses an input that
\* the TCP form would accept.
C27_DnsFallThrough ==
    (op = "probe_info" /\ Len(data) >= 12) =>
        (status.status = "Match"
            <=> (DnsUdpFormValid(data) \/ DnsTcpFormValid(data)))

\* The UDP branch has returned early on an over-long label, on 14 bytes or
\* more that begin with a length of at least 12.
C27_Witness ==
    /\ op = "probe_info"
    /\ Len(data) >= 14
    /\ validate_dns_header(Slice(data, 0, 12))
    /\ u16_be(B(data, 4), B(data, 5)) > 0
    /\ B(data, 12) > 63
    /\ u16_be(B(data, 0), B(data, 1)) >= 12
    /\ status.status = "NoMatch"

\* C25: for a detector whose max_inspect_bytes is at least min_bytes(P) for
\* every protocol P it iterates, detect does not return the InsufficientData
\* error on an input with len(data) >= max_inspect_bytes, so a caller that
\* appends bytes after each such error eventually receives Ok(_).
C25_RetryTerminates ==
    (/\ op = "detect_info"
     /\ Len(data) >= max_inspect_bytes
     /\ \A p \in Configured : max_inspect_bytes >= min_bytes(p))
        => result # ErrInsufficientData

\* The order ProtocolChainBuilder::new().all_tcp() leaves in the builder.
AllTcpChainOrder ==
    <<"Ssh", "Tls", "Http", "Redis", "Mysql", "Postgres", "Mqtt", "Smtp",
      "Pop3", "Imap", "Ftp", "Smb", "Sip", "Rtsp">>

\* The detector ProtocolDetectorBuilder::new().all_tcp().build() returns.
AllTcpBuilderDetector ==
    [enabled |-> AllTcpProtocols,
     priority_order |-> None,
     max_inspect_bytes |-> MAX_INSPECT_BYTES,
     expected_versions |-> NoExpectedVersions,
     transport |-> TransportUnknown]

\* C26: ProtocolChainBuilder::all_tcp() appends the TCP protocols in the
\* default iteration order of the engine, so on every input the detector of
\* ProtocolChainBuilder::new().all_tcp().build() returns what the detector
\* of ProtocolDetectorBuilder::new().all_tcp().build() returns.
C26_AllTcpSameAsBuilder ==
    (/\ op = "detect_info"
     /\ priority_order = Some(AllTcpChainOrder)
     /\ max_inspect_bytes = MAX_INSPECT_BYTES)
        => /\ AllTcpChainOrder
                 = SelectSeq(DefaultOrder, LAMBDA p : p \in AllTcpProtocols)
           /\ result = detect_info(AllTcpBuilderDetector, data).result

\* ------------------------------------------------------------------------
\* A caller reading an MQTT packet byte by byte and asking Protocol::Mqtt
\* ------------------------------------------------------------------------

MaxMqttLen == 15

\* Offset of the first byte after offset 0 without the continuation bit,
\* or -1 when every byte after offset 0 carries it.
MqttLengthEnd(d) ==
    LET ends == {i \in 1..(Len(d) - 1) : B(d, i) < 128}
    IN  IF ends = {} THEN -1 ELSE MinOf(ends)

\* The values the next byte is drawn from, given the bytes d sent so far:
\* the packet type, up to five length bytes with and without the
\* continuation bit, a Name Length of 4, 5 or 6, the letters of `MQTT` or
\* `MQIsdp` up to a first other letter, a level of 3, 4 or 5, then zeros.
MqttByteChoices(d) ==
    LET e == MqttLengthEnd(d)
        k == Len(d) - (e + 1)           \* offset after the length bytes
        name_len == B(d, e + 2)
        name == IF name_len = 6 THEN <<77, 81, 73, 115, 100, 112>> (* b"MQIsdp" *) ELSE <<77, 81, 84, 84, 95>> (* b"MQTT_" *)
    IN  IF Len(d) = 0 THEN {16, 32}
        ELSE IF e = -1
        THEN IF Len(d) = 1 THEN {5, 9, 10, 11, 12, 128, 255}
             ELSE IF Len(d) <= 5 THEN {0, 127, 128, 255}
             ELSE {0}
        ELSE IF k = 0 THEN {0}
        ELSE IF k = 1 THEN {4, 5, 6}
        ELSE IF k < 2 + name_len
        THEN IF Slice(d, e + 3, Len(d)) = SubSeq(name, 1, k - 2)
             THEN {name[k - 1], 88}
             ELSE {88}
        ELSE IF k = 2 + name_len THEN {3, 4, 5}
        ELSE {0}

InitMqtt ==
    /\ phase = "stream"
    /\ enabled = {}
    /\ order = <<>>
    /\ priority_order = None
    /\ max_inspect_bytes = MAX_INSPECT_BYTES
    /\ expected_versions = NoExpectedVersions
    /\ transport = TransportUnknown
    /\ calls = 0
    /\ op = "new"
    /\ data = <<>>
    /\ result = NoResult
    /\ probed = <<>>
    /\ window = <<>>
    /\ stream = 0
    /\ proto = "Mqtt"
    /\ status = NoStatus
    /\ validated = FALSE
    /\ single = NoSingle
    /\ threads = [t \in Threads |-> IdleThread]

\* one more byte of the packet arrives
RecvMqttByte ==
    /\ phase = "stream"
    /\ Len(data) < MaxMqttLen
    /\ \E b \in MqttByteChoices(data) : data' = Append(data, b)
    /\ op' = "recv"
    /\ UNCHANGED <<phase, calls, result, probed, window, threads>>
    /\ UNCHANGED config_vars
    /\ UNCHANGED stream_vars

NextMqtt ==
    \/ RecvMqttByte
    \/ ProbeInfo

SpecMqtt == InitMqtt /\ [][NextMqtt]_vars

RECURSIVE Pow128(_)
Pow128(n) == IF n = 0 THEN 1 ELSE 128 * Pow128(n - 1)

RECURSIVE VariableByteInteger(_, _)
\* The value of the variable byte integer held by d[1..n].
VariableByteInteger(d, n) ==
    IF n = 0 THEN 0
    ELSE VariableByteInteger(d, n - 1) + (B(d, n) % 128) * Pow128(n - 1)

\* d is a CONNECT whose Remaining Length takes n bytes: length >= name
\* length + 6, name `MQTT` with level 4 or 5, or `MQIsdp` with level 3.
IsConnect(d, n) ==
    LET name_len == u16_be(B(d, n + 1), B(d, n + 2))
    IN  /\ \A i \in 1..(n - 1) : B(d, i) >= 128
        /\ B(d, n) < 128
        /\ VariableByteInteger(d, n) >= name_len + 6
        /\ Len(d) > n + 3 + name_len
        /\ \/ /\ name_len = 4
              /\ Slice(d, n + 3, n + 7) = <<77, 81, 84, 84>> (* b"MQTT" *)
              /\ B(d, n + 7) \in {4, 5}
           \/ /\ name_len = 6
              /\ Slice(d, n + 3, n + 9) = <<77, 81, 73, 115, 100, 112>> (* b"MQIsdp" *)
              /\ B(d, n + 9) = 3

\* C28: the Remaining Length decoding reads at most the 4 bytes at offsets
\* 1..=4: an input whose four length bytes all carry the continuation bit
\* 0x80 is NoMatch; the accumulated value never exceeds 268,435,455 and the
\* multiplier never 128^4, so neither u32 overflows; and a CONNECT is matched
\* only if Remaining Length >= name_len + 6 with name `MQTT` (level 4 or 5)
\* or `MQIsdp` (level 3).
C28_MqttRemainingLength ==
    (op = "probe_info" /\ Len(data) >= 12 /\ B(data, 0) = 16) =>
        LET r == mqtt_remaining_length(data, 1, 0, 1)
        IN  /\ r.offset <= 5
            /\ r.remaining_length <= 268435455
            /\ r.multiplier <= 268435456
            /\ (\A i \in 1..4 : B(data, i) >= 128)
                  => status.status = "NoMatch"
            /\ status.status = "Match"
                  => \E n \in 1..4 : IsConnect(data, n)

\* Four length bytes with the continuation bit, the last three 0xFF, have
\* been read and the packet declined.
C28_Witness ==
    /\ op = "probe_info"
    /\ Len(data) >= 12
    /\ B(data, 0) = 16
    /\ \A i \in 1..4 : B(data, i) >= 128
    /\ mqtt_remaining_length(data, 1, 0, 1).multiplier = 268435456
    /\ status.status = "NoMatch"

\* A CONNECT with a 4-byte Remaining Length has been accepted.
C28_WitnessLong ==
    /\ op = "probe_info"
    /\ Len(data) >= 12
    /\ IsConnect(data, 4)
    /\ status.status = "Match"

\* ------------------------------------------------------------------------
\* A caller reading some bytes of a server greeting and then asking SMTP,
\* FTP and a chain of the two
\* ------------------------------------------------------------------------

\* The texts the peer may be sending: greetings of both services, with a
\* tab, a DEL, no text at all, a line longer than the 64 bytes the scan
\* covers, and lines that are not the 220 greeting.
GreetingWords ==
    {<<50, 50, 48, 32, 109, 97, 105, 108, 46, 101, 120, 97, 109, 112, 108, 101, 46, 99, 111, 109, 32, 69, 83, 77, 84, 80, 13, 10>> (* b"220 mail.example.com ESMTP\x0d\x0a" *), <<50, 50, 48, 45, 70, 84, 80, 32, 115, 101, 114, 118, 101, 114, 32, 114, 101, 97, 100, 121, 13, 10>> (* b"220-FTP server ready\x0d\x0a" *),
     <<50, 50, 48, 32, 10>> (* b"220 \x0a" *), <<50, 50, 48, 32, 97, 9, 98, 13, 10>> (* b"220 a\x09b\x0d\x0a" *), <<50, 50, 48, 32, 111, 107, 127>> (* b"220 ok\x7f" *), <<50, 50, 48, 48, 32, 120>> (* b"2200 x" *), <<50, 50, 49, 32, 98, 121, 101, 13, 10>> (* b"221 bye\x0d\x0a" *),
     <<50, 50, 48, 45, 120, 120, 120, 120, 120, 120, 120, 120, 120, 120, 120, 120, 120, 120, 120, 120, 120, 120, 120, 120, 120, 120, 120, 120, 120, 120, 120, 120, 120, 120, 120, 120, 120, 120, 120, 120, 120, 120, 120, 120, 120, 120, 120, 120, 120, 120, 120, 120, 120, 120, 120, 120, 120, 120, 120, 120, 120, 120, 120, 120, 0, 10>> (* b"220-xxxxxxxxxxxxxxxxxxxxxxxxxxxxxxxxxxxxxxxxxxxxxxxxxxxxxxxxxxxx\x00\x0a" *)}

\* The two orders a chain of SMTP and FTP can have.
GreetingOrders == {<<"Smtp", "Ftp">>, <<"Ftp", "Smtp">>}

\* ProtocolChainBuilder::from_slice(o).build() for one of the two orders, and
\* the Protocol value asked directly.
InitGreeting ==
    /\ phase = "stream"
    /\ order \in GreetingOrders
    /\ max_inspect_bytes = MAX_INSPECT_BYTES
    /\ enabled = with_order(order, max_inspect_bytes).enabled
    /\ priority_order = with_order(order, max_inspect_bytes).priority_order
    /\ expected_versions = with_order(order, max_inspect_bytes).expected_versions
    /\ transport = with_order(order, max_inspect_bytes).transport
    /\ calls = 0
    /\ op = "build"
    /\ data = <<>>
    /\ result = NoResult
    /\ probed = <<>>
    /\ window = <<>>
    /\ stream = 0
    /\ proto \in {"Smtp", "Ftp"}
    /\ status = NoStatus
    /\ validated = FALSE
    /\ single = NoSingle
    /\ threads = [t \in Threads |-> IdleThread]

\* one more byte of the greeting arrives; the caller reads first and asks
\* afterwards
RecvGreetingByte ==
    /\ phase = "stream"
    /\ op \in {"build", "recv"}
    /\ \E b \in NextBytes(GreetingWords, data) : data' = Append(data, b)
    /\ op' = "recv"
    /\ UNCHANGED <<phase, calls, result, probed, window, threads>>
    /\ UNCHANGED config_vars
    /\ UNCHANGED stream_vars

\* detector.detect_info(data) on the bytes read so far
StreamDetectInfo ==
    /\ phase = "stream"
    /\ Returned(detect_info(Det, data))
    /\ op' = "detect_info"
    /\ UNCHANGED <<phase, calls, data, threads>>
    /\ UNCHANGED config_vars
    /\ UNCHANGED stream_vars

NextGreeting ==
    \/ RecvGreetingByte
    \/ ProbeInfo
    \/ StreamDetectInfo

SpecGreeting == InitGreeting /\ [][NextGreeting]_vars

\* An input of at least 5 bytes starting with `220 ` or `220-`.
IsGreeting(d) ==
    /\ Len(d) >= 5
    /\ starts_with(d, <<50, 50, 48, 32>> (* b"220 " *)) \/ starts_with(d, <<50, 50, 48, 45>> (* b"220-" *))

\* All bytes before the first `\n` within the first 64 bytes are printable
\* ASCII, CR or tab, and a `\n` is present or len >= 16.
GreetingLineAccepted(d) ==
    LET limit == MinInt(Len(d), 64)
        nls   == {i \in 0..(limit - 1) : B(d, i) = 10}
        upto  == IF nls = {} THEN limit ELSE MinOf(nls)
    IN  /\ \A i \in 0..(upto - 1) :
              (B(d, i) >= 32 /\ B(d, i) <= 126) \/ B(d, i) \in {13, 9}
        /\ nls # {} \/ Len(d) >= 16

OtherOf(p) == IF p = "Smtp" THEN "Ftp" ELSE "Smtp"

\* C29: on every input of at least 5 bytes starting with `220 ` or `220-`
\* the SMTP validator answers Match iff the FTP validator does, both iff the
\* line is accepted as described; hence the chain [SMTP, FTP] reports SMTP
\* and the chain [FTP, SMTP] reports FTP on every such matching input.
C29_GreetingByOrder ==
    /\ (op = "probe_info" /\ IsGreeting(data)) =>
          /\ status.status = "Match" <=> GreetingLineAccepted(data)
          /\ status.status = "Match"
                <=> probe(OtherOf(proto), data) = "Match"
    /\ (op = "detect_info" /\ IsGreeting(data) /\ GreetingLineAccepted(data))
          => /\ result = OkSome(order[1], VUnknown)
             /\ probed = <<<<order[1], "Match">>>>

\* The chain [FTP, SMTP] has reported FTP on a greeting that Protocol::Smtp
\* accepts.
C29_Witness ==
    /\ op = "detect_info"
    /\ order = <<"Ftp", "Smtp">>
    /\ IsGreeting(data)
    /\ probe("Smtp", data) = "Match"
    /\ result = OkSome("Ftp", VUnknown)

\* Protocol::Smtp has accepted a `220-` greeting of 65 bytes whose byte 64
\* is a NUL.
C29_WitnessLong ==
    /\ op = "probe_info"
    /\ proto = "Smtp"
    /\ Len(data) = 65
    /\ B(data, 64) = 0
    /\ status.status = "Match"

\* ------------------------------------------------------------------------
\* A caller reading some bytes of a first packet and then asking quic::detect
\* and tls::detect about them
\* ------------------------------------------------------------------------

MaxQuicLen == 12

\* The bytes that may follow d: a first byte with the high bit set (SSLv2
\* length 0x00.., QUIC long header with and without reserved bits), the
\* four version forms of QUIC overlaid on the SSLv2 length, message type and
\* version, connection id lengths up to 21 overlaid on the SSLv2 lengths.
QuicByteChoices(d) ==
    CASE Len(d) = 0 -> {128, 192, 195, 204}
      [] Len(d) = 1 -> {0, 28, 107, 255}
      [] Len(d) = 2 -> IF B(d, 1) = 107 THEN {51} ELSE {0, 1}
      [] Len(d) = 3 -> IF B(d, 2) = 51 THEN {67} ELSE {0, 3}
      [] Len(d) = 4 -> IF B(d, 3) = 67 THEN {207} ELSE {0, 1, 2, 4}
      [] Len(d) = 5 -> {0, 8, 21}
      [] Len(d) = 6 -> {0, 3, 21}
      [] Len(d) = 7 -> {0, 64}
      [] Len(d) = 8 -> {0, 240}
      [] Len(d) = 10 -> {0, 3, 16}
      [] OTHER -> {0}

InitQuic ==
    /\ phase = "stream"
    /\ enabled = {}
    /\ order = <<>>
    /\ priority_order = None
    /\ max_inspect_bytes = MAX_INSPECT_BYTES
    /\ expected_versions = NoExpectedVersions
    /\ transport = TransportUnknown
    /\ calls = 0
    /\ op = "new"
    /\ data = <<>>
    /\ result = NoResult
    /\ probed = <<>>
    /\ window = <<>>
    /\ stream = 0
    /\ proto = "Quic"
    /\ status = NoStatus
    /\ validated = FALSE
    /\ single = NoSingle
    /\ threads = [t \in Threads |-> IdleThread]

\* one more byte of the packet arrives; the caller reads first and asks
\* afterwards
RecvQuicByte ==
    /\ phase = "stream"
    /\ op \in {"new", "recv"}
    /\ Len(data) < MaxQuicLen
    /\ \E b \in QuicByteChoices(data) : data' = Append(data, b)
    /\ op' = "recv"
    /\ UNCHANGED <<phase, calls, result, probed, window, threads>>
    /\ UNCHANGED config_vars
    /\ UNCHANGED stream_vars

\* quic::detect(data)
QuicDetect ==
    /\ phase = "stream"
    /\ single' = OkBool(quic_detect(data))
    /\ op' = "quic_detect"
    /\ UNCHANGED <<phase, calls, stream, proto, status, validated>>
    /\ UNCHANGED config_vars
    /\ UNCHANGED call_vars

\* tls::detect(data)
TlsDetect ==
    /\ phase = "stream"
    /\ single' = OkBool(tls_detect(data))
    /\ op' = "tls_detect"
    /\ UNCHANGED <<phase, calls, stream, proto, status, validated>>
    /\ UNCHANGED config_vars
    /\ UNCHANGED call_vars

NextQuic ==
    \/ RecvQuicByte
    \/ QuicDetect
    \/ TlsDetect

SpecQuic == InitQuic /\ [][NextQuic]_vars

\* data[0] & 0xC0 == 0xC0 and bytes 1..4 hold 0, 1, 0x6b3343cf or 0xff0000xx.
QuicFormAndVersion(d) ==
    /\ Len(d) >= 5
    /\ B(d, 0) >= 192
    /\ \/ <<B(d, 1), B(d, 2), B(d, 3)>> = <<0, 0, 0>> /\ B(d, 4) \in {0, 1}
       \/ <<B(d, 1), B(d, 2), B(d, 3), B(d, 4)>> = <<107, 51, 67, 207>>
       \/ <<B(d, 1), B(d, 2), B(d, 3)>> = <<255, 0, 0>>

\* C30: no input is accepted both by quic::detect and by tls::detect; every
\* input with data[0] & 0xC0 == 0xC0 and a version field quic::detect accepts
\* is declined by tls::detect, and every input with the high bit of byte 0
\* set that tls::detect accepts is declined by quic::detect.
C30_QuicSslv2Exclusive ==
    /\ (op = "quic_detect" /\ single = OkBool(TRUE)) => ~tls_detect(data)
    /\ (op = "tls_detect" /\ QuicFormAndVersion(data))
          => single = OkBool(FALSE)
    /\ (op = "tls_detect" /\ single = OkBool(TRUE) /\ B(data, 0) >= 128)
          => ~quic_detect(data)

\* tls::detect has declined a long-header packet of 11 bytes or more that
\* quic::detect accepts.
C30_Witness ==
    /\ op = "tls_detect"
    /\ Len(data) >= 11
    /\ QuicFormAndVersion(data)
    /\ quic_detect(data)
    /\ single = OkBool(FALSE)

\* tls::detect has accepted an SSLv2 ClientHello whose first byte has both
\* high bits set.
C30_WitnessSslv2 ==
    /\ op = "tls_detect"
    /\ Len(data) >= 11
    /\ B(data, 0) >= 192
    /\ single = OkBool(TRUE)

====
